---------------------------- MODULE Spec2Model ----------------------------
(***************************************************************************)
(* A model of backend/math_solver.py: MathSolver.solve and the stages it   *)
(* runs (_preprocess, _check_impossible, _detect_mistakes, _solve_equation,*)
(* _evaluate_expression, _generate_explanation).                           *)
(*                                                                         *)
(* Text is a sequence of characters.  An ASCII character is the one-letter *)
(* string holding it; a non-ASCII character is named:                      *)
(*   "SUP0".."SUP9"  superscript digits U+2070, U+00B9, U+00B2, U+00B3,    *)
(*                   U+2074..U+2079                                        *)
(*   "TIMES"  U+00D7    "DIVIDE"  U+00F7    "MINUS"  U+2212                *)
(*   "EMDASH" U+2014    "RADICAL" U+221A    "INTEGRAL" U+222B              *)
(*   "BACKTICK" U+0060                                                     *)
(* Output strings (answer, explanation) are TLA+ strings.                  *)
(***************************************************************************)
EXTENDS Integers, Sequences, FiniteSets, TLC

VARIABLES
    pc,               \* position of the running solve call
    equation_arg,     \* the equation_str argument as the caller passed it
    explanation_mode, \* the explanation_mode argument
    equation_str,     \* the local equation_str (rebound by _preprocess)
    mistakes,         \* the local mistakes
    result,           \* the record solve returns (or the local result so far)
    exception,        \* the exception in flight inside solve's try block
    trace,            \* history: the stages the call ran, in order
    normalized,       \* history of repeated _preprocess passes (SpecNormalize)
    self,             \* the MathSolver instance the calls share
    globals,          \* the globals of the module math_solver
    handler,          \* the AIHandler instance the requests share
    now,              \* the clock time.time() reads, in seconds
    locals,           \* the locals of each thread's running call
    passed,           \* history: the times at which calls left _rate_limit
    response          \* the response of the request handler

vars == <<pc, equation_arg, explanation_mode, equation_str, mistakes, result,
          exception, trace, normalized, self, globals,
          handler, now, locals, passed, response>>

-----------------------------------------------------------------------------
(* Characters and character classes (Python's re: \d, [a-zA-Z], \s).       *)

Digits == {"0", "1", "2", "3", "4", "5", "6", "7", "8", "9"}

LowerLetters == {"a", "b", "c", "d", "e", "f", "g", "h", "i", "j", "k", "l", "m",
                 "n", "o", "p", "q", "r", "s", "t", "u", "v", "w", "x", "y", "z"}

UpperLetters == {"A", "B", "C", "D", "E", "F", "G", "H", "I", "J", "K", "L", "M",
                 "N", "O", "P", "Q", "R", "S", "T", "U", "V", "W", "X", "Y", "Z"}

Letters == LowerLetters \cup UpperLetters

Whitespace == {" ", "\t", "\n"}

DigitValue(c) ==
    CASE c = "0" -> 0 [] c = "1" -> 1 [] c = "2" -> 2 [] c = "3" -> 3
      [] c = "4" -> 4 [] c = "5" -> 5 [] c = "6" -> 6 [] c = "7" -> 7
      [] c = "8" -> 8 [] c = "9" -> 9

\* str.lower() on one character (what re.IGNORECASE amounts to for the
\* patterns of COMMON_MISTAKES, whose letters are all lower case).
Lower(c) ==
    CASE c = "A" -> "a" [] c = "B" -> "b" [] c = "C" -> "c" [] c = "D" -> "d"
      [] c = "E" -> "e" [] c = "F" -> "f" [] c = "G" -> "g" [] c = "H" -> "h"
      [] c = "I" -> "i" [] c = "J" -> "j" [] c = "K" -> "k" [] c = "L" -> "l"
      [] c = "M" -> "m" [] c = "N" -> "n" [] c = "O" -> "o" [] c = "P" -> "p"
      [] c = "Q" -> "q" [] c = "R" -> "r" [] c = "S" -> "s" [] c = "T" -> "t"
      [] c = "U" -> "u" [] c = "V" -> "v" [] c = "W" -> "w" [] c = "X" -> "x"
      [] c = "Y" -> "y" [] c = "Z" -> "z" [] OTHER -> c

LowerText(s) == [i \in 1..Len(s) |-> Lower(s[i])]

\* s[i..] starts with the literal text lit.
StartsAt(s, i, lit) ==
    /\ i >= 1
    /\ i + Len(lit) - 1 <= Len(s)
    /\ \A k \in 1..Len(lit) : s[i + k - 1] = lit[k]

\* The text s begins with lit (re.match of a literal).
BeginsWith(s, lit) == StartsAt(s, 1, lit)

\* The text lit occurs somewhere in s (re.search of a literal).
Contains(s, lit) == \E i \in 1..Len(s) : StartsAt(s, i, lit)

\* The first position >= i of s that holds no whitespace (greedy \s*; the
\* classes that follow \s* in the patterns below never hold whitespace, so
\* the greedy match is the only one).
RECURSIVE SkipSpace(_, _)
SkipSpace(s, i) ==
    IF i <= Len(s) /\ s[i] \in Whitespace THEN SkipSpace(s, i + 1) ELSE i

\* The first position >= i of s that holds no digit (greedy \d*).
RECURSIVE SkipDigits(_, _)
SkipDigits(s, i) ==
    IF i <= Len(s) /\ s[i] \in Digits THEN SkipDigits(s, i + 1) ELSE i

\* An optional single character c at position i (c?).
SkipOptional(s, i, c) == IF i <= Len(s) /\ s[i] = c THEN i + 1 ELSE i

-----------------------------------------------------------------------------
(* _preprocess                                                             *)

\* The superscripts dict, in insertion order: character, replacement.
superscripts ==
    << <<"SUP0", <<"*", "*", "0">> >>, <<"SUP1", <<"*", "*", "1">> >>,
       <<"SUP2", <<"*", "*", "2">> >>, <<"SUP3", <<"*", "*", "3">> >>,
       <<"SUP4", <<"*", "*", "4">> >>, <<"SUP5", <<"*", "*", "5">> >>,
       <<"SUP6", <<"*", "*", "6">> >>, <<"SUP7", <<"*", "*", "7">> >>,
       <<"SUP8", <<"*", "*", "8">> >>, <<"SUP9", <<"*", "*", "9">> >> >>

\* str.replace(char, replacement) for a one-character char.
RECURSIVE Replace(_, _, _)
Replace(eq, char, replacement) ==
    IF eq = <<>> THEN <<>>
    ELSE (IF Head(eq) = char THEN replacement ELSE <<Head(eq)>>)
         \o Replace(Tail(eq), char, replacement)

\* for char, replacement in superscripts.items(): eq = eq.replace(...)
RECURSIVE ReplaceSuperscripts(_, _)
ReplaceSuperscripts(eq, k) ==
    IF k > Len(superscripts) THEN eq
    ELSE ReplaceSuperscripts(Replace(eq, superscripts[k][1], superscripts[k][2]), k + 1)

\* re.sub(r'\*\*(\d)\*\*(\d)', r'**\1\2', eq): leftmost matches, not
\* overlapping, the scan resuming after each match.
RECURSIVE CollapseExponents(_, _)
CollapseExponents(eq, i) ==
    IF i > Len(eq) THEN <<>>
    ELSE IF /\ i + 5 <= Len(eq)
            /\ eq[i] = "*" /\ eq[i + 1] = "*" /\ eq[i + 2] \in Digits
            /\ eq[i + 3] = "*" /\ eq[i + 4] = "*" /\ eq[i + 5] \in Digits
         THEN <<"*", "*", eq[i + 2], eq[i + 5]>> \o CollapseExponents(eq, i + 6)
         ELSE <<eq[i]>> \o CollapseExponents(eq, i + 1)

\* re.sub(r'(A)(B)', r'\1*\2', eq) for one-character classes A and B.
RECURSIVE InsertStar(_, _, _, _)
InsertStar(eq, A, B, i) ==
    IF i > Len(eq) THEN <<>>
    ELSE IF i + 1 <= Len(eq) /\ eq[i] \in A /\ eq[i + 1] \in B
         THEN <<eq[i], "*", eq[i + 1]>> \o InsertStar(eq, A, B, i + 2)
         ELSE <<eq[i]>> \o InsertStar(eq, A, B, i + 1)

\* str.strip()
RECURSIVE LStrip(_)
LStrip(s) == IF s # <<>> /\ Head(s) \in Whitespace THEN LStrip(Tail(s)) ELSE s

RECURSIVE RStrip(_)
RStrip(s) ==
    IF s # <<>> /\ s[Len(s)] \in Whitespace
    THEN RStrip(SubSeq(s, 1, Len(s) - 1)) ELSE s

\* A text left as it is
Unstripped(s) == s

Strip(s) == RStrip(LStrip(s))

\* The implicit-multiplication rewrites, lines 223-232, in order.
ImplicitMultiplication(eq) ==
    LET e1 == InsertStar(eq, Digits, Letters, 1)
        e2 == InsertStar(e1, {")"}, {"("}, 1)
        e3 == InsertStar(e2, Digits, {"("}, 1)
        e4 == InsertStar(e3, Letters, {"("}, 1)
    IN  InsertStar(e4, {")"}, Letters, 1)

\* The standard replacements, lines 219-221.
StandardReplacements(eq) ==
    LET e1 == Replace(eq, "^", <<"*", "*">>)
        e2 == Replace(Replace(e1, "TIMES", <<"*">>), "DIVIDE", <<"/">>)
    IN  Replace(Replace(e2, "MINUS", <<"-">>), "EMDASH", <<"-">>)

\* _preprocess on a str (a falsy argument returns "" before any str method
\* is used; see Preprocess for non-str arguments).
_preprocess(eq) ==
    IF eq = <<>> THEN <<>>
    ELSE LET e1 == ReplaceSuperscripts(eq, 1)
             e2 == CollapseExponents(e1, 1)
             e3 == StandardReplacements(e2)
         IN  Strip(ImplicitMultiplication(e3))

-----------------------------------------------------------------------------
(* COMMON_MISTAKES and _detect_mistakes                                    *)

\* '.' of Python's re matches any character but a newline.
NoNewline(s, from, to) == \A k \in from..to : s[k] # "\n"

\* re.search(lit1 '.*' lit2, s): lit1, later lit2, no newline in between.
ThenLater(s, lit1, lit2) ==
    \E i \in 1..Len(s) :
        /\ StartsAt(s, i, lit1)
        /\ \E j \in (i + Len(lit1))..Len(s) :
              /\ StartsAt(s, j, lit2)
              /\ NoNewline(s, i + Len(lit1), j - 1)

\* re.search(open '.*\+.*\)', s) for a literal open.
AdditionInside(s, open) ==
    \E i \in 1..Len(s) :
        /\ StartsAt(s, i, open)
        /\ \E j \in (i + Len(open))..Len(s) :
              /\ s[j] = "+"
              /\ \E k \in (j + 1)..Len(s) :
                    /\ s[k] = ")"
                    /\ NoNewline(s, i + Len(open), k - 1)

\* The keys of COMMON_MISTAKES in the dict's (insertion) order.
MistakeIds ==
    <<"sqrt_addition", "log_addition", "forgot_plus_c", "trig_identity",
      "negative_sqrt", "zero_division">>

\* re.search(COMMON_MISTAKES[id]['pattern'], eq, re.IGNORECASE)
PatternMatches(id, eq) ==
    LET s == LowerText(eq)
    IN  CASE id = "sqrt_addition" -> AdditionInside(s, <<"RADICAL", "(">>)
          [] id = "log_addition"  -> AdditionInside(s, <<"l", "o", "g", "(">>)
          [] id = "forgot_plus_c" ->
                \/ Contains(s, <<"INTEGRAL">>)
                \/ Contains(s, <<"i", "n", "t", "e", "g", "r", "a", "l">>)
          [] id = "trig_identity" ->
                \/ ThenLater(s, <<"s", "i", "n">>, <<"c", "o", "s">>)
                \/ ThenLater(s, <<"c", "o", "s">>, <<"s", "i", "n">>)
          [] id = "negative_sqrt" ->
                \/ Contains(s, <<"RADICAL", "-">>)
                \/ Contains(s, <<"s", "q", "r", "t", "(", "-">>)
          [] id = "zero_division" ->
                \/ Contains(s, <<"/", "0">>)
                \/ Contains(s, <<"DIVIDE", "0">>)

\* The 'wrong', 'correct' and 'tip' texts of COMMON_MISTAKES[id].
COMMON_MISTAKES(id) ==
    CASE id = "sqrt_addition" ->
           [wrong   |-> "U+221A(a+b) = U+221Aa + U+221Ab",
            correct |-> "U+221A(a+b) U+2260 U+221Aa + U+221Ab. You cannot split square roots over addition.",
            tip     |-> "Only U+221A(aU+00D7b) = U+221Aa U+00D7 U+221Ab works for multiplication!"]
      [] id = "log_addition" ->
           [wrong   |-> "log(a+b) = log(a) + log(b)",
            correct |-> "log(aU+00D7b) = log(a) + log(b), NOT log(a+b)",
            tip     |-> "Logarithm addition rule only works for multiplication inside!"]
      [] id = "forgot_plus_c" ->
           [wrong   |-> "Forgetting +C in indefinite integrals",
            correct |-> "Always add +C (constant of integration) for indefinite integrals",
            tip     |-> "The derivative of any constant is 0, so we need +C!"]
      [] id = "trig_identity" ->
           [wrong   |-> "sinU+00B2U+03B8 + cosU+00B2U+03B8 = 1 misuse",
            correct |-> "This identity only works for the same angle U+03B8",
            tip     |-> "sinU+00B2(30U+00B0) + cosU+00B2(30U+00B0) = 1, but sinU+00B2(30U+00B0) + cosU+00B2(45U+00B0) U+2260 1"]
      [] id = "negative_sqrt" ->
           [wrong   |-> "U+221A(-x) is real for negative x",
            correct |-> "U+221A(negative number) is not a real number",
            tip     |-> "In real numbers, you cannot take square root of negatives!"]
      [] id = "zero_division" ->
           [wrong   |-> "Dividing by zero",
            correct |-> "Division by zero is undefined",
            tip     |-> "Before dividing, always check if denominator can be zero!"]

\* The dict _detect_mistakes appends for a matching rule.
MistakeHit(id) ==
    [id               |-> id,
     wrong_approach   |-> COMMON_MISTAKES(id).wrong,
     correct_approach |-> COMMON_MISTAKES(id).correct,
     tip              |-> COMMON_MISTAKES(id).tip]

RECURSIVE DetectFrom(_, _)
DetectFrom(eq, k) ==
    IF k > Len(MistakeIds) THEN <<>>
    ELSE (IF PatternMatches(MistakeIds[k], eq) THEN <<MistakeHit(MistakeIds[k])>> ELSE <<>>)
         \o DetectFrom(eq, k + 1)

_detect_mistakes(eq) == DetectFrom(eq, 1)

-----------------------------------------------------------------------------
(* _check_impossible                                                       *)

\* re.search(name '\s*\(?\s*x\s*\)?\s*=\s*([2-9]|1\.[1-9])', eq), name
\* being sin or cos.
TrigOutOfRange(eq, name) ==
    \E i \in 1..Len(eq) :
        /\ StartsAt(eq, i, name)
        /\ LET j1 == SkipSpace(eq, SkipOptional(eq, SkipSpace(eq, i + Len(name)), "("))
           IN  /\ j1 <= Len(eq) /\ eq[j1] = "x"
               /\ LET j2 == SkipSpace(eq, SkipOptional(eq, SkipSpace(eq, j1 + 1), ")"))
                  IN  /\ j2 <= Len(eq) /\ eq[j2] = "="
                      /\ LET j3 == SkipSpace(eq, j2 + 1)
                         IN  /\ j3 <= Len(eq)
                             /\ \/ eq[j3] \in {"2", "3", "4", "5", "6", "7", "8", "9"}
                                \/ /\ j3 + 2 <= Len(eq)
                                   /\ eq[j3] = "1" /\ eq[j3 + 1] = "."
                                   /\ eq[j3 + 2] \in Digits \ {"0"}

\* re.search(name '\s*\(\s*-\d+\s*\)', eq)
NegativeArgument(eq, name) ==
    \E i \in 1..Len(eq) :
        /\ StartsAt(eq, i, name)
        /\ LET j1 == SkipSpace(eq, i + Len(name))
           IN  /\ j1 <= Len(eq) /\ eq[j1] = "("
               /\ LET j2 == SkipSpace(eq, j1 + 1)
                  IN  /\ j2 + 1 <= Len(eq) /\ eq[j2] = "-" /\ eq[j2 + 1] \in Digits
                      /\ LET j3 == SkipSpace(eq, SkipDigits(eq, j2 + 1))
                         IN  j3 <= Len(eq) /\ eq[j3] = ")"

\* re.search('U+221A\s*-\d+', eq)
NegativeRadical(eq) ==
    \E i \in 1..Len(eq) :
        /\ eq[i] = "RADICAL"
        /\ LET j == SkipSpace(eq, i + 1)
           IN  j + 1 <= Len(eq) /\ eq[j] = "-" /\ eq[j + 1] \in Digits

None == [none |-> TRUE]

SinImpossible ==
    [answer |-> "No real solution",
     steps |-> <<[step |-> "text", text |-> "sin(x) can only equal values between -1 and 1"]>>,
     explanation |-> "The sine function always returns values in [-1, 1]",
     type |-> "impossible",
     is_impossible |-> TRUE,
     impossible_reason |-> "sin(x) = value where |value| > 1 has no real solution",
     suggestion |-> "Did you copy the question correctly? Check if the value is within [-1, 1]",
     common_mistakes |-> <<>>]

CosImpossible ==
    [answer |-> "No real solution",
     steps |-> <<[step |-> "text", text |-> "cos(x) can only equal values between -1 and 1"]>>,
     explanation |-> "The cosine function always returns values in [-1, 1]",
     type |-> "impossible",
     is_impossible |-> TRUE,
     impossible_reason |-> "cos(x) = value where |value| > 1 has no real solution",
     suggestion |-> "Did you copy the question correctly?",
     common_mistakes |-> <<>>]

\* The record of lines 144-153 without its 'impossible_reason'
LogUnexplained ==
    [answer |-> "Undefined",
     steps |-> <<[step |-> "text", text |-> "Logarithm of a negative number is undefined in real numbers"]>>,
     explanation |-> "log(x) only works for x > 0",
     type |-> "impossible",
     is_impossible |-> TRUE,
     suggestion |-> "Check if the number inside log() is positive",
     common_mistakes |-> <<>>]

LogImpossible ==
    [answer |-> "Undefined",
     steps |-> <<[step |-> "text", text |-> "Logarithm of a negative number is undefined in real numbers"]>>,
     explanation |-> "log(x) only works for x > 0",
     type |-> "impossible",
     is_impossible |-> TRUE,
     impossible_reason |-> "Logarithm of negative numbers is undefined in real numbers",
     suggestion |-> "Check if the number inside log() is positive",
     common_mistakes |-> <<>>]

SqrtImpossible ==
    [answer |-> "No real solution",
     steps |-> <<[step |-> "text", text |-> "Square root of a negative number is imaginary, not real"]>>,
     explanation |-> "U+221A(-x) gives imaginary numbers (uses i = U+221A-1)",
     type |-> "impossible",
     is_impossible |-> TRUE,
     impossible_reason |-> "Square root of negative = imaginary number",
     suggestion |-> "For real solutions, the number under U+221A must be U+2265 0",
     common_mistakes |-> <<>>]

_check_impossible(eq) ==
    IF TrigOutOfRange(eq, <<"s", "i", "n">>) THEN SinImpossible
    ELSE IF TrigOutOfRange(eq, <<"c", "o", "s">>) THEN CosImpossible
    ELSE IF \/ NegativeArgument(eq, <<"l", "o", "g">>)
            \/ NegativeArgument(eq, <<"l", "n">>) THEN LogImpossible
    ELSE IF \/ NegativeArgument(eq, <<"s", "q", "r", "t">>)
            \/ NegativeRadical(eq) THEN SqrtImpossible
    ELSE None

-----------------------------------------------------------------------------
(* The sympy values the solver computes with.  A rational is a record      *)
(* [n, d] in lowest terms with d > 0 (sympy's Integer and Rational).  An   *)
(* expression in the symbols x, y, z is a polynomial with rational         *)
(* coefficients in canonical form, as sympy's automatic evaluation and     *)
(* simplify leave it: a function from the monomials <<ex, ey, ez>> with a  *)
(* non-zero coefficient to that coefficient.                               *)

Abs(n) == IF n < 0 THEN -n ELSE n

RECURSIVE Gcd(_, _)
Gcd(a, b) == IF b = 0 THEN a ELSE Gcd(b, a % b)

Rat(n, d) ==
    LET g == Gcd(Abs(n), Abs(d))
        sgn == IF d < 0 THEN -1 ELSE 1
    IN  [n |-> sgn * (n \div g), d |-> sgn * (d \div g)]

RInt(n) == [n |-> n, d |-> 1]
RZero == RInt(0)
ROne == RInt(1)
RAdd(a, b) == Rat(a.n * b.d + b.n * a.d, a.d * b.d)
RNeg(a) == [n |-> -a.n, d |-> a.d]
RSub(a, b) == RAdd(a, RNeg(b))
RMul(a, b) == Rat(a.n * b.n, a.d * b.d)
RDiv(a, b) == Rat(a.n * b.d, a.d * b.n)
RLess(a, b) == a.n * b.d < b.n * a.d

Symbols == <<"x", "y", "z">>

SymbolIndex(name) == CHOOSE i \in 1..Len(Symbols) : Symbols[i] = name

MOne == <<0, 0, 0>>
MVar(i) == [k \in 1..3 |-> IF k = i THEN 1 ELSE 0]
MAdd(m1, m2) == [k \in 1..3 |-> m1[k] + m2[k]]
MSub(m1, m2) == [k \in 1..3 |-> m1[k] - m2[k]]

PZero == [m \in {} |-> RZero]
PConst(r) == IF r.n = 0 THEN PZero ELSE [m \in {MOne} |-> r]
PVar(i) == [m \in {MVar(i)} |-> ROne]
Coef(p, m) == IF m \in DOMAIN p THEN p[m] ELSE RZero

PAdd(p, q) ==
    LET D == {m \in DOMAIN p \cup DOMAIN q : RAdd(Coef(p, m), Coef(q, m)).n # 0}
    IN  [m \in D |-> RAdd(Coef(p, m), Coef(q, m))]

PScale(p, r) == IF r.n = 0 THEN PZero ELSE [m \in DOMAIN p |-> RMul(p[m], r)]
PNeg(p) == PScale(p, RInt(-1))
\* left + right in the place of left - right
PSumOfSides(p, q) == PAdd(p, q)

PSub(p, q) == PAdd(p, PNeg(q))
PShift(p, m0) == [m \in {MAdd(k, m0) : k \in DOMAIN p} |-> p[MSub(m, m0)]]

RECURSIVE PMulFold(_, _, _)
PMulFold(p, q, todo) ==
    IF todo = {} THEN PZero
    ELSE LET m == CHOOSE k \in todo : TRUE
         IN  PAdd(PShift(PScale(q, p[m]), m), PMulFold(p, q, todo \ {m}))

PMul(p, q) == PMulFold(p, q, DOMAIN p)

RECURSIVE PPow(_, _)
PPow(p, k) == IF k = 0 THEN PConst(ROne) ELSE PMul(p, PPow(p, k - 1))

IsConst(p) == DOMAIN p \subseteq {MOne}
ConstOf(p) == Coef(p, MOne)

\* expr.free_symbols, as names.
FreeSymbols(p) ==
    {Symbols[i] : i \in {k \in 1..3 : \E m \in DOMAIN p : m[k] > 0}}

\* The degree of p in symbol i (Poly.degree(); 0 for the zero polynomial
\* here, where sympy gives -oo: the callers only compare it with 1 and 2).
Degree(p, i) ==
    IF DOMAIN p = {} THEN 0
    ELSE CHOOSE d \in {m[i] : m \in DOMAIN p} : \A m \in DOMAIN p : m[i] <= d

\* The coefficient of symbol i to the power k in p, a polynomial in the
\* other symbols (Expr.coeff(var, k), and the entries of Poly.all_coeffs()).
CoeffOf(p, i, k) ==
    LET D == {m \in DOMAIN p : m[i] = k}
        drop(m) == [j \in 1..3 |-> IF j = i THEN 0 ELSE m[j]]
    IN  [m \in {drop(k2) : k2 \in D} |-> p[[m EXCEPT ![i] = k]]]

\* Poly.all_coeffs(): the coefficients from the leading one down to the
\* constant one ([0] for the zero polynomial).
all_coeffs(p, i) ==
    [k \in 1..(Degree(p, i) + 1) |-> CoeffOf(p, i, Degree(p, i) + 1 - k)]

RECURSIVE RPow(_, _)
RPow(r, k) == IF k = 0 THEN ROne ELSE RMul(r, RPow(r, k - 1))

\* expr.subs(var, value): symbol i replaced by the polynomial v.
RECURSIVE SubsFold(_, _, _, _)
SubsFold(p, i, v, todo) ==
    IF todo = {} THEN PZero
    ELSE LET m == CHOOSE k \in todo : TRUE
             rest == [k \in {[m EXCEPT ![i] = 0]} |-> p[m]]
         IN  PAdd(PMul(rest, PPow(v, m[i])), SubsFold(p, i, v, todo \ {m}))

Subs(p, i, v) == SubsFold(p, i, v, DOMAIN p)

-----------------------------------------------------------------------------
(* sympy's parse_expr under self.transformations and self.local_dict, for  *)
(* the expressions the inputs below hold: integer literals, the symbols    *)
(* x, y, z, the function names of local_dict, + - * / ** and parentheses.  *)
(* parse_expr tokenizes the text, rewrites the tokens and hands the result *)
(* to Python's eval: a text that is no Python expression raises            *)
(* SyntaxError, then the operators are applied to sympy objects, where a   *)
(* function (sin, sqrt, ...) that is an operand of + - * / ** raises       *)
(* TypeError.  A construct outside this fragment (arithmetic on a float, a *)
(* function application, an implicit multiplication by juxtaposition, pi,  *)
(* e, i, a rational function, ...) yields Unmodelled, which no input below *)
(* reaches (see ModelCovers).                                              *)

FunctionNames ==
    { <<"s", "q", "r", "t">>, <<"s", "i", "n">>, <<"c", "o", "s">>, <<"t", "a", "n">>,
      <<"l", "o", "g">>, <<"l", "n">>, <<"e", "x", "p">> }

SymbolNames == { <<"x">>, <<"y">>, <<"z">> }

NameChars == Letters \cup Digits \cup {"_"}

OpChars == {"+", "-", "*", "/", "(", ")"}

RECURSIVE SkipName(_, _)
SkipName(s, i) ==
    IF i <= Len(s) /\ s[i] \in NameChars THEN SkipName(s, i + 1) ELSE i

RECURSIVE NumberValue(_, _, _, _)
NumberValue(s, i, j, acc) ==
    IF i >= j THEN acc ELSE NumberValue(s, i + 1, j, 10 * acc + DigitValue(s[i]))

\* Python's tokenizer on text s from position i on.
RECURSIVE Tokenize(_, _)
Tokenize(s, i) ==
    IF i > Len(s) THEN <<>>
    ELSE IF s[i] \in {" ", "\t"} THEN Tokenize(s, i + 1)
    ELSE IF s[i] \in Digits THEN
        LET j == SkipDigits(s, i)
        IN  IF j <= Len(s) /\ s[j] = "."
            THEN <<[t |-> "FLOAT"]>> \o Tokenize(s, SkipDigits(s, j + 1))
            ELSE IF j <= Len(s) /\ s[j] \in NameChars
            THEN <<[t |-> "UNMODELLED"]>> \o Tokenize(s, SkipName(s, j))
            ELSE IF s[i] = "0" /\ j > i + 1
            THEN <<[t |-> "UNMODELLED"]>> \o Tokenize(s, j)
            ELSE <<[t |-> "NUMBER", int |-> NumberValue(s, i, j, 0)]>> \o Tokenize(s, j)
    ELSE IF s[i] = "." THEN <<[t |-> "UNMODELLED"]>> \o Tokenize(s, i + 1)
    ELSE IF s[i] \in Letters \cup {"_"} THEN
        LET j == SkipName(s, i)
        IN  <<[t |-> "NAME", name |-> SubSeq(s, i, j - 1)]>> \o Tokenize(s, j)
    ELSE IF s[i] = "*" /\ i + 1 <= Len(s) /\ s[i + 1] = "*"
        THEN <<[t |-> "OP", op |-> "**"]>> \o Tokenize(s, i + 2)
    ELSE IF s[i] \in OpChars THEN <<[t |-> "OP", op |-> s[i]]>> \o Tokenize(s, i + 1)
    ELSE <<[t |-> "ERRORTOKEN"]>> \o Tokenize(s, i + 1)

IsOp(toks, i, ops) == i <= Len(toks) /\ toks[i].t = "OP" /\ toks[i].op \in ops

StartsAtom(toks, i) ==
    i <= Len(toks) /\ (toks[i].t \in {"NUMBER", "FLOAT", "NAME"} \/ IsOp(toks, i, {"("}))

SyntaxError == [st |-> "SyntaxError"]
OutOfFragment == [st |-> "Unmodelled"]
Parsed(ast, pos) == [st |-> "ok", ast |-> ast, pos |-> pos]

\* Python's expression grammar: sum, term, factor (unary sign), power
\* ('**' binds tighter than a unary sign on its left and takes a factor on
\* its right), atom.
RECURSIVE ParseSum(_, _), SumRest(_, _, _), ParseTerm(_, _), TermRest(_, _, _),
          ParseFactor(_, _), ParsePower(_, _), ParseAtom(_, _)

ParseSum(toks, i) ==
    LET First(t) == IF t.st = "ok" THEN SumRest(toks, t.ast, t.pos) ELSE t
    IN  First(ParseTerm(toks, i))

SumRest(toks, acc, i) ==
    LET Operand(t) ==
            IF t.st = "ok"
            THEN SumRest(toks, [op |-> toks[i].op, a |-> acc, b |-> t.ast], t.pos)
            ELSE t
    IN  IF IsOp(toks, i, {"+", "-"}) THEN Operand(ParseTerm(toks, i + 1))
        ELSE Parsed(acc, i)

ParseTerm(toks, i) ==
    LET First(f) == IF f.st = "ok" THEN TermRest(toks, f.ast, f.pos) ELSE f
    IN  First(ParseFactor(toks, i))

TermRest(toks, acc, i) ==
    LET Operand(f) ==
            IF f.st = "ok"
            THEN TermRest(toks, [op |-> toks[i].op, a |-> acc, b |-> f.ast], f.pos)
            ELSE f
    IN  IF IsOp(toks, i, {"*", "/"}) THEN Operand(ParseFactor(toks, i + 1))
        ELSE Parsed(acc, i)

ParseFactor(toks, i) ==
    LET Signed(f) ==
            IF f.st = "ok"
            THEN Parsed([op |-> IF toks[i].op = "-" THEN "neg" ELSE "pos", a |-> f.ast], f.pos)
            ELSE f
    IN  IF IsOp(toks, i, {"+", "-"}) THEN Signed(ParseFactor(toks, i + 1))
        ELSE ParsePower(toks, i)

ParsePower(toks, i) ==
    LET Exponent(a, f) ==
            IF f.st = "ok" THEN Parsed([op |-> "**", a |-> a.ast, b |-> f.ast], f.pos)
            ELSE f
        Base(a) ==
            IF a.st # "ok" THEN a
            ELSE IF IsOp(toks, a.pos, {"**"}) THEN Exponent(a, ParseFactor(toks, a.pos + 1))
            ELSE a
    IN  Base(ParseAtom(toks, i))

ParseAtom(toks, i) ==
    IF i > Len(toks) THEN SyntaxError
    ELSE IF toks[i].t = "UNMODELLED" THEN OutOfFragment
    ELSE IF toks[i].t \in {"NUMBER", "FLOAT", "NAME"} THEN
        IF StartsAtom(toks, i + 1) THEN OutOfFragment
        ELSE IF toks[i].t = "NUMBER"
        THEN Parsed([op |-> "num", int |-> toks[i].int], i + 1)
        ELSE IF toks[i].t = "FLOAT"
        THEN Parsed([op |-> "float"], i + 1)
        ELSE Parsed([op |-> "name", name |-> toks[i].name], i + 1)
    ELSE IF IsOp(toks, i, {"("}) THEN
        LET Parenthesized(e) ==
                IF e.st # "ok" THEN e
                ELSE IF ~IsOp(toks, e.pos, {")"}) THEN SyntaxError
                ELSE IF StartsAtom(toks, e.pos + 1) THEN OutOfFragment
                ELSE Parsed(e.ast, e.pos + 1)
        IN  Parenthesized(ParseSum(toks, i + 1))
    ELSE SyntaxError

\* The values eval produces.
PolyValue(p) == [k |-> "poly", p |-> p]
FunctionValue == [k |-> "function"]
FloatValue == [k |-> "float"]             \* a Float, or an expression holding one
Undefined == [k |-> "undefined"]          \* an expression holding zoo or nan
Raised(class, msg) == [k |-> "raised", class |-> class, msg |-> msg]
Unmodelled == [k |-> "unmodelled"]

OperandTypeError == Raised("TypeError", "unsupported operand type(s)")

\* A binary operator on two evaluated operands.
ApplyBinary(op, u, v) ==
    IF u.k = "function" \/ v.k = "function" THEN OperandTypeError
    ELSE IF u.k = "float" \/ v.k = "float" THEN Unmodelled
    ELSE IF op = "+" THEN
        (IF u.k = "undefined" \/ v.k = "undefined" THEN Undefined
         ELSE PolyValue(PAdd(u.p, v.p)))
    ELSE IF op = "-" THEN
        (IF u.k = "undefined" \/ v.k = "undefined" THEN Undefined
         ELSE PolyValue(PSub(u.p, v.p)))
    ELSE IF op = "*" THEN
        (IF u.k = "undefined" \/ v.k = "undefined" THEN Undefined
         ELSE PolyValue(PMul(u.p, v.p)))
    ELSE IF op = "/" THEN
        (IF u.k = "undefined" \/ v.k = "undefined" THEN Unmodelled
         ELSE IF ~IsConst(v.p) THEN Unmodelled
         ELSE IF ConstOf(v.p).n = 0 THEN Undefined
         ELSE PolyValue(PScale(u.p, RDiv(ROne, ConstOf(v.p)))))
    ELSE \* "**"
        (IF u.k = "undefined" \/ v.k = "undefined" THEN Unmodelled
         ELSE IF ~IsConst(v.p) \/ ConstOf(v.p).d # 1 THEN Unmodelled
         ELSE IF ConstOf(v.p).n >= 0 THEN PolyValue(PPow(u.p, ConstOf(v.p).n))
         ELSE IF ~IsConst(u.p) THEN Unmodelled
         ELSE IF ConstOf(u.p).n = 0 THEN Undefined
         ELSE PolyValue(PConst(RPow(RDiv(ROne, ConstOf(u.p)), -ConstOf(v.p).n))))

\* eval of the parsed expression: operands left to right, then the operator.
RECURSIVE Eval(_)
Eval(ast) ==
    LET Unary(u) ==
            IF u.k \in {"raised", "unmodelled"} THEN u
            ELSE IF u.k = "function" THEN Raised("TypeError", "bad operand type for unary")
            ELSE IF u.k \in {"undefined", "float"} THEN u
            ELSE IF ast.op = "neg" THEN PolyValue(PNeg(u.p)) ELSE u
        Right(u, v) ==
            IF v.k \in {"raised", "unmodelled"} THEN v ELSE ApplyBinary(ast.op, u, v)
        Binary(u) ==
            IF u.k \in {"raised", "unmodelled"} THEN u ELSE Right(u, Eval(ast.b))
    IN  IF ast.op = "num" THEN PolyValue(PConst(RInt(ast.int)))
        ELSE IF ast.op = "float" THEN FloatValue
        ELSE IF ast.op = "name" THEN
            (IF ast.name \in SymbolNames THEN PolyValue(PVar(SymbolIndex(ast.name[1])))
             ELSE IF ast.name \in FunctionNames THEN FunctionValue
             ELSE Unmodelled)
        ELSE IF ast.op \in {"neg", "pos"} THEN Unary(Eval(ast.a))
        ELSE Binary(Eval(ast.a))

\* parse_expr(text, transformations=self.transformations,
\*            local_dict=self.local_dict)
parse_expr(text) ==
    LET Evaluated(v) == IF v.k \in {"function", "float"} THEN Unmodelled ELSE v
        Parse(toks, r) ==
            IF r.st = "SyntaxError" THEN Raised("SyntaxError", "invalid syntax")
            ELSE IF r.st = "Unmodelled" THEN Unmodelled
            ELSE IF r.pos <= Len(toks) THEN
                (IF IsOp(toks, r.pos, {")"}) THEN Raised("SyntaxError", "invalid syntax")
                 ELSE Unmodelled)
            ELSE Evaluated(Eval(r.ast))
        Tokens(toks) ==
            IF \E i \in 1..Len(toks) : toks[i].t = "ERRORTOKEN"
            THEN Raised("SyntaxError", "invalid syntax")
            ELSE Parse(toks, ParseSum(toks, 1))
    IN  Tokens(Tokenize(text, 1))

-----------------------------------------------------------------------------
(* sympy's solve(equation, var) for a polynomial equation.  A solution is  *)
(*   [k |-> "rational", r]      a rational number                          *)
(*   [k |-> "expr", p]          a polynomial in the other symbols          *)
(*   [k |-> "surd", re, sign, rad]     re + sign * sqrt(rad), rad > 0 not  *)
(*                                     a square: real and irrational       *)
(*   [k |-> "complex", re, sign, rad]  re + sign * sqrt(rad), rad < 0:     *)
(*                                     sympy writes it with I              *)
(* solve returns the distinct solutions sorted by default_sort_key: the    *)
(* rational numbers first, in increasing order; the order of the others    *)
(* among themselves is left open here (SolveLists holds every order).      *)

RationalSol(r) == [k |-> "rational", r |-> r]
ExprSol(p) == IF IsConst(p) THEN RationalSol(ConstOf(p)) ELSE [k |-> "expr", p |-> p]
SurdSol(re, sign, rad) == [k |-> "surd", re |-> re, sign |-> sign, rad |-> rad]
ComplexSol(re, sign, rad) == [k |-> "complex", re |-> re, sign |-> sign, rad |-> rad]

\* A has(I) that finds no I in any solution.
HasNoI(s) == FALSE

\* s.has(I)
HasI(s) == s.k = "complex"

IsSquare(n) == n >= 0 /\ \E r \in 0..n : r * r = n
ISqrt(n) == CHOOSE r \in 0..n : r * r = n
RIsSquare(r) == IsSquare(r.n) /\ IsSquare(r.d)
RSqrt(r) == Rat(ISqrt(r.n), ISqrt(r.d))

\* The distinct roots of a*X^2 + b*X + c, a # 0 (rational a, b, c).
QuadraticRoots(a, b, c) ==
    LET disc == RSub(RMul(b, b), RMul(RInt(4), RMul(a, c)))
        re   == RDiv(RNeg(b), RMul(RInt(2), a))
        rad  == RDiv(disc, RMul(RInt(4), RMul(a, a)))
    IN  IF disc.n = 0 THEN {RationalSol(re)}
        ELSE IF disc.n < 0 THEN {ComplexSol(re, -1, rad), ComplexSol(re, 1, rad)}
        ELSE IF RIsSquare(rad)
             THEN {RationalSol(RSub(re, RSqrt(rad))), RationalSol(RAdd(re, RSqrt(rad)))}
             ELSE {SurdSol(re, -1, rad), SurdSol(re, 1, rad)}

\* The value of c3*X^3 + c2*X^2 + c1*X + c0 at the rational r.
CubicAt(c3, c2, c1, c0, r) ==
    RAdd(RMul(RAdd(RMul(RAdd(RMul(c3, r), c2), r), c1), r), c0)

\* The rational roots of a cubic with rational coefficients (the rational
\* root theorem on the cubic scaled to integer coefficients).
CubicRationalRoots(c3, c2, c1, c0) ==
    LET L  == c3.d * c2.d * c1.d * c0.d
        lo == Abs(RMul(c0, RInt(L)).n)
        hi == Abs(RMul(c3, RInt(L)).n)
    IN  {r \in {Rat(n, d) : n \in (-lo)..lo, d \in 1..hi} :
            CubicAt(c3, c2, c1, c0, r).n = 0}

\* The distinct roots of the cubic when it has a rational root r: r and
\* the roots of the quotient by (X - r).
CubicRoots(c3, c2, c1, c0) ==
    LET r  == CHOOSE q \in CubicRationalRoots(c3, c2, c1, c0) : TRUE
        b2 == RAdd(c2, RMul(c3, r))
        b1 == RAdd(c1, RMul(b2, r))
    IN  {RationalSol(r)} \cup QuadraticRoots(c3, b2, b1)

\* Whether solve is modelled for the polynomial p = left - right in
\* symbol i.
SolveModelled(p, i) ==
    LET d == Degree(p, i)
        constant == \A k \in 0..d : IsConst(CoeffOf(p, i, k))
    IN  \/ d = 0
        \/ d = 1 /\ IsConst(CoeffOf(p, i, 1))
        \/ d = 2 /\ constant
        \/ d = 3 /\ constant
                 /\ CubicRationalRoots(ConstOf(CoeffOf(p, i, 3)), ConstOf(CoeffOf(p, i, 2)),
                                       ConstOf(CoeffOf(p, i, 1)), ConstOf(CoeffOf(p, i, 0))) # {}

\* The set of solutions of p = 0 for symbol i.
SolutionSet(p, i) ==
    LET d == Degree(p, i)
        c(k) == ConstOf(CoeffOf(p, i, k))
    IN  CASE d = 0 -> {}
          [] d = 1 -> {ExprSol(PScale(CoeffOf(p, i, 0), RDiv(RInt(-1), c(1))))}
          [] d = 2 -> QuadraticRoots(c(2), c(1), c(0))
          [] OTHER -> CubicRoots(c(3), c(2), c(1), c(0))

\* The sequences that list every element of the set S once.
RECURSIVE Orderings(_)
Orderings(S) ==
    IF S = {} THEN {<<>>}
    ELSE UNION {{<<e>> \o t : t \in Orderings(S \ {e})} : e \in S}

\* The rational solutions of S in increasing order.
RECURSIVE Ascending(_)
Ascending(S) ==
    IF S = {} THEN <<>>
    ELSE LET least == CHOOSE e \in S : \A f \in S \ {e} : RLess(e.r, f.r)
         IN  <<least>> \o Ascending(S \ {least})

\* The lists solve(equation, var) can return.
SolveLists(p, i) ==
    LET S == SolutionSet(p, i)
        rationals == {e \in S : e.k = "rational"}
    IN  {Ascending(rationals) \o t : t \in Orderings(S \ rationals)}

-----------------------------------------------------------------------------
(* str() of the values: sympy's string printer.                            *)

\* str(Integer) and str(Rational)
StrRat(r) == IF r.d = 1 THEN ToString(r.n) ELSE ToString(r.n) \o "/" \o ToString(r.d)

RAbs(r) == [n |-> Abs(r.n), d |-> r.d]

\* A monomial: the symbols with their powers, joined by '*'.
RECURSIVE StrMonomial(_, _)
StrMonomial(m, i) ==
    IF i > 3 THEN ""
    ELSE LET rest == StrMonomial(m, i + 1)
             this == IF m[i] = 0 THEN ""
                     ELSE IF m[i] = 1 THEN Symbols[i]
                     ELSE Symbols[i] \o "**" \o ToString(m[i])
         IN  IF this = "" THEN rest
             ELSE IF rest = "" THEN this
             ELSE this \o "*" \o rest

\* One term without its sign: 3, x, 2*x, x/2, 3*x/2.
StrTerm(c, m) ==
    LET a == RAbs(c)
    IN  IF m = MOne THEN StrRat(a)
        ELSE (IF a.n = 1 THEN "" ELSE ToString(a.n) \o "*")
             \o StrMonomial(m, 1)
             \o (IF a.d = 1 THEN "" ELSE "/" \o ToString(a.d))

\* The printer's term order: by the powers of x, then y, then z, highest
\* first, the constant term last.
MonomialBefore(m1, m2) ==
    \E i \in 1..3 : m1[i] > m2[i] /\ \A j \in 1..(i - 1) : m1[j] = m2[j]

RECURSIVE OrderedTerms(_)
OrderedTerms(D) ==
    IF D = {} THEN <<>>
    ELSE LET first == CHOOSE m \in D : \A k \in D \ {m} : MonomialBefore(m, k)
         IN  <<first>> \o OrderedTerms(D \ {first})

RECURSIVE StrTerms(_, _, _)
StrTerms(p, terms, k) ==
    IF k > Len(terms) THEN ""
    ELSE (IF k = 1 THEN (IF p[terms[k]].n < 0 THEN "-" ELSE "")
          ELSE (IF p[terms[k]].n < 0 THEN " - " ELSE " + "))
         \o StrTerm(p[terms[k]], terms[k]) \o StrTerms(p, terms, k + 1)

\* str(expr) of a polynomial expression.  Expr.as_ordered_terms puts a
\* positive number before a single term with a negative coefficient
\* (3 - y, not -y + 3).
StrPoly(p) ==
    IF p = PZero THEN "0"
    ELSE LET terms == OrderedTerms(DOMAIN p)
         IN  IF /\ Len(terms) = 2 /\ terms[2] = MOne
                /\ p[terms[2]].n > 0 /\ p[terms[1]].n < 0
             THEN StrTerms(p, <<terms[2], terms[1]>>, 1)
             ELSE StrTerms(p, terms, 1)

\* str(simplify(s)) of a solution.  The printed form sympy gives an
\* irrational or complex root is not reproduced: the text names the value
\* (re, sign and radicand), and is no rational's text.
StrValue(s) ==
    CASE s.k = "rational" -> StrRat(s.r)
      [] s.k = "expr" -> StrPoly(s.p)
      [] s.k = "surd" ->
           StrRat(s.re) \o (IF s.sign > 0 THEN " + " ELSE " - ") \o "sqrt(" \o StrRat(s.rad) \o ")"
      [] s.k = "complex" ->
           StrRat(s.re) \o (IF s.sign > 0 THEN " + " ELSE " - ") \o "sqrt(" \o StrRat(RAbs(s.rad)) \o ")*I"

RECURSIVE JoinOr(_, _)
JoinOr(sols, k) ==
    IF k > Len(sols) THEN ""
    ELSE (IF k = 1 THEN "" ELSE " or ") \o StrValue(sols[k]) \o JoinOr(sols, k + 1)

\* frac written with the given number of digits (leading zeros kept).
RECURSIVE StrDigits(_, _)
StrDigits(frac, places) ==
    IF places = 0 THEN ""
    ELSE StrDigits(frac \div 10, places - 1) \o ToString(frac % 10)

\* The fraction digits of a value rounded to 6 places, as repr(float)
\* prints them: no trailing zeros, at least one digit.
RECURSIVE StrFraction(_, _)
StrFraction(frac, places) ==
    IF frac % 10 = 0 /\ places > 1 THEN StrFraction(frac \div 10, places - 1)
    ELSE StrDigits(frac, places)

Million == 10 ^ 6

\* str(round(float(r), 6)) for a rational r that is no integer and whose
\* magnitude repr prints in positional notation.
StrRounded(r) ==
    LET q == (2 * Abs(r.n) * Million + r.d) \div (2 * r.d)
    IN  (IF r.n < 0 /\ q > 0 THEN "-" ELSE "")
        \o ToString(q \div Million) \o "." \o StrFraction(q % Million, 6)

-----------------------------------------------------------------------------
(* The step lists.  A step line is a record naming the f-string that made  *)
(* it (step) and holding the values the f-string interpolates.             *)

Blank == [step |-> "blank"]

RaisedTypeError == Raised("TypeError", "cannot determine truth value of Relational")

\* _solve_linear_steps keeps left, right, steps and step_num as it goes; s
\* holds them, and s.raised the exception that ended it.  Comparing a
\* coefficient that holds a symbol with 0 ('coeff_val > 0', 'constant > 0')
\* raises TypeError; dividing by such a coefficient is outside the fragment.

\* 1. Move variable terms to left if variable exists on right
MoveVariableTerms(s, var) ==
    LET i == SymbolIndex(var)
        Move(coeff_val, term_to_move) ==
            IF ~(s.right # PZero /\ Degree(s.right, i) >= 1 /\ term_to_move # PZero) THEN s
            ELSE IF ~IsConst(coeff_val) THEN [s EXCEPT !.raised = RaisedTypeError]
            ELSE [s EXCEPT
                    !.steps = @ \o
                        << [step |-> "Step: Move variable terms to one side", num |-> s.step_num,
                            op_text |-> IF ConstOf(coeff_val).n > 0
                                        THEN "subtracting" ELSE "adding",
                            term |-> IF ConstOf(coeff_val).n > 0
                                     THEN term_to_move ELSE PNeg(term_to_move)],
                           [step |-> "both sides", left |-> s.left, right |-> s.right,
                            moved |-> term_to_move],
                           [step |-> "sides", left |-> PSub(s.left, term_to_move),
                            right |-> PSub(s.right, term_to_move)],
                           Blank >>,
                    !.left = PSub(s.left, term_to_move),
                    !.right = PSub(s.right, term_to_move),
                    !.step_num = @ + 1]
        Coefficient(coeff_val) == Move(coeff_val, PMul(coeff_val, PVar(i)))
    IN  Coefficient(CoeffOf(s.right, i, 1))

\* 2. Move constant terms to right
MoveConstantTerms(s, var) ==
    LET i == SymbolIndex(var)
        Move(l_coeffs, constant) ==
            IF ~(s.left # PZero /\ Len(l_coeffs) = 2 /\ constant # PZero) THEN s
            ELSE IF ~IsConst(constant) THEN [s EXCEPT !.raised = RaisedTypeError]
            ELSE [s EXCEPT
                    !.steps = @ \o
                        << [step |-> "Step: Move constant terms to the other side",
                            num |-> s.step_num,
                            op_text |-> IF ConstOf(constant).n > 0
                                        THEN "subtracting" ELSE "adding",
                            term |-> IF ConstOf(constant).n > 0
                                     THEN constant ELSE PNeg(constant)],
                           [step |-> "both sides", left |-> s.left, right |-> s.right,
                            moved |-> constant],
                           [step |-> "sides", left |-> PSub(s.left, constant),
                            right |-> PSub(s.right, constant)],
                           Blank >>,
                    !.left = PSub(s.left, constant),
                    !.right = PSub(s.right, constant),
                    !.step_num = @ + 1]
        Coefficients(l_coeffs) == Move(l_coeffs, l_coeffs[2])
    IN  IF s.raised # None THEN s ELSE Coefficients(all_coeffs(s.left, i))

\* 3. Divide by coefficient to isolate variable
IsolateVariable(s, var) ==
    LET i == SymbolIndex(var)
        Divide(coeff) ==
            IF ~(s.left # PZero /\ coeff # PConst(ROne) /\ coeff # PZero) THEN s
            ELSE IF ~IsConst(coeff) THEN [s EXCEPT !.raised = Unmodelled]
            ELSE [s EXCEPT
                    !.steps = @ \o
                        << [step |-> "Step: Isolate var by dividing both sides",
                            num |-> s.step_num, var |-> var, coeff |-> coeff],
                           [step |-> "divided", left |-> s.left, right |-> s.right,
                            coeff |-> coeff],
                           [step |-> "var = right", var |-> var,
                            right |-> PScale(s.right, RDiv(ROne, ConstOf(coeff)))],
                           Blank >>,
                    !.right = PScale(s.right, RDiv(ROne, ConstOf(coeff))),
                    !.step_num = @ + 1]
    IN  IF s.raised # None THEN s ELSE Divide(all_coeffs(s.left, i)[1])

\* _solve_linear_steps(left, right, var)
_solve_linear_steps(left, right, var) ==
    LET i == SymbolIndex(var)
        \* Verification step
        Verify(final_answer, steps, left_check, right_check) ==
            [raised |-> None,
             steps |->
                steps
                \o << [step |-> "Final Solution", var |-> var, value |-> final_answer],
                      Blank,
                      [step |-> "Verify: Substitute", var |-> var, value |-> final_answer],
                      [step |-> "Left side", side |-> left, check |-> left_check],
                      [step |-> "Right side", side |-> right, check |-> right_check] >>
                \o (IF left_check = right_check
                    THEN << [step |-> "Both sides equal, solution verified", value |-> left_check] >>
                    ELSE <<>>)]
        \* Final answer
        Final(s) ==
            IF s.raised # None THEN [raised |-> s.raised]
            ELSE Verify(s.right, s.steps, Subs(left, i, s.right), Subs(right, i, s.right))
    IN  Final(IsolateVariable(
                MoveConstantTerms(
                    MoveVariableTerms(
                        [left |-> left, right |-> right, step_num |-> 1, raised |-> None,
                         steps |-> << [step |-> "Equation", left |-> left, right |-> right],
                                      Blank >>],
                        var),
                    var),
                var))

\* _solve_quadratic_steps(left, right, var).  'disc > 0' on a discriminant
\* that holds a symbol raises TypeError.  The formula lines name x whatever
\* var is.
_solve_quadratic_steps(left, right, var) ==
    LET i == SymbolIndex(var)
        Heading(eq_zero) == << [step |-> "This is a quadratic equation"],
                            [step |-> "Standard Form", eq_zero |-> eq_zero] >>
        Formula(head, a, b, c, disc, d) ==
            IF ~IsConst(disc) THEN [raised |-> RaisedTypeError]
            ELSE [raised |-> None,
                  steps |->
                    head
                    \o << [step |-> "Identify Coefficients", a |-> a, b |-> b, c |-> c],
                          [step |-> "Calculate Discriminant"],
                          [step |-> "Discriminant substituted", a |-> a, b |-> b, c |-> c],
                          [step |-> "Discriminant value", disc |-> disc],
                          [step |-> IF d.n > 0 THEN "Since disc > 0, there are 2 real solutions"
                                    ELSE IF d.n = 0 THEN "Since disc = 0, there is 1 real solution"
                                    ELSE "Since disc < 0, solutions are complex"],
                          [step |-> "Quadratic Formula"],
                          [step |-> "x = (-b +- sqrt(disc)) / 2a", var |-> "x"],
                          [step |-> "x = formula substituted", var |-> "x",
                           minus_b |-> PNeg(b), disc |-> disc,
                           two_a |-> PScale(a, RInt(2))] >>
                    \o (IF d.n >= 0 /\ d.d = 1 /\ IsSquare(d.n)
                        THEN << [step |-> "x = formula with integer root", var |-> "x",
                                 minus_b |-> PNeg(b), sqrt_disc |-> ISqrt(d.n),
                                 two_a |-> PScale(a, RInt(2))] >>
                        ELSE <<>>)]
        Discriminant(head, a, b, c, disc) == Formula(head, a, b, c, disc, ConstOf(disc))
        Coefficients(head, a, b, c) ==
            Discriminant(head, a, b, c,
                         PSub(PMul(b, b), PMul(PConst(RInt(4)), PMul(a, c))))
        StandardForm(eq_zero, coeffs) ==
            IF eq_zero = PZero \/ Len(coeffs) # 3 THEN [raised |-> None, steps |-> Heading(eq_zero)]
            ELSE Coefficients(Heading(eq_zero), coeffs[1], coeffs[2], coeffs[3])
        Difference(eq_zero) == StandardForm(eq_zero, all_coeffs(eq_zero, i))
    IN  Difference(PSub(left, right))

-----------------------------------------------------------------------------
(* _solve_equation, _evaluate_expression, _generate_explanation            *)

\* str.split(sep) for a one-character sep.
RECURSIVE Split(_, _)
Split(s, sep) ==
    IF \A k \in 1..Len(s) : s[k] # sep THEN <<s>>
    ELSE LET k == CHOOSE j \in 1..Len(s) : s[j] = sep /\ \A h \in 1..(j - 1) : s[h] # sep
         IN  <<SubSeq(s, 1, k - 1)>> \o Split(SubSeq(s, k + 1, Len(s)), sep)

\* What a stage returns for an input outside the modelled fragment of sympy.
UnmodelledResult ==
    [answer |-> "?", steps |-> <<>>, explanation |-> "?", type |-> "unmodelled",
     is_impossible |-> FALSE]

\* The except clause of _solve_equation, lines 339-346.
EquationError(e, steps) ==
    [answer |-> "Error: " \o e.msg,
     steps |-> steps,
     explanation |-> "Check equation format.",
     type |-> "error",
     is_impossible |-> FALSE]

\* Eq(left, right).free_symbols.  Eq evaluates to True or False when
\* left - right is a number, and a Boolean has no free symbols.
EquationSymbols(left, right) ==
    IF IsConst(PSub(left, right)) THEN {}
    ELSE FreeSymbols(left) \cup FreeSymbols(right)

RECURSIVE SolutionLines(_, _, _)
SolutionLines(var, sols, k) ==
    IF k > Len(sols) THEN <<>>
    ELSE <<[step |-> "var = solution", var |-> var, value |-> sols[k]]>>
         \o SolutionLines(var, sols, k + 1)

\* _solve_equation from 'solutions = solve(equation, var)' on, lines
\* 267-337, for the symbol var and the list solutions that solve returned.
Solved(left, right, var, solutions, steps) ==
    LET i == SymbolIndex(var)
        Result(real_solutions, detailed_steps) ==
            [answer |-> IF Len(real_solutions) = 1
                        THEN var \o " = " \o StrValue(real_solutions[1])
                        ELSE var \o " = " \o JoinOr(real_solutions, 1),
             steps |-> IF detailed_steps # <<>> THEN detailed_steps
                       ELSE steps \o SolutionLines(var, real_solutions, 1),
             explanation |-> "Solved for " \o var \o ".",
             type |-> IF Len(real_solutions) = 1 THEN "linear"
                      ELSE IF Len(real_solutions) = 2 THEN "quadratic" ELSE "polynomial",
             is_impossible |-> FALSE]
        \* Quadratic Equation Check
        Quadratic(real_solutions, detailed_steps, poly, quadratic) ==
            Result(real_solutions,
                   IF poly # PZero /\ Degree(poly, i) = 2 /\ quadratic.raised = None
                   THEN quadratic.steps ELSE detailed_steps)
        \* Linear Equation Check
        Linear(real_solutions, linear) ==
            IF Len(real_solutions) = 1 /\ linear.raised = Unmodelled THEN UnmodelledResult
            ELSE Quadratic(real_solutions,
                           IF Len(real_solutions) = 1 /\ linear.raised = None
                           THEN linear.steps ELSE <<>>,
                           PSub(left, right),
                           _solve_quadratic_steps(left, right, var))
        Real(real_solutions) ==
            IF solutions = <<>> THEN
                [answer |-> "No solution",
                 steps |-> steps \o <<[step |-> "This equation has no solution"]>>,
                 explanation |-> "No solution exists for this equation.",
                 type |-> "no_solution",
                 is_impossible |-> TRUE,
                 impossible_reason |-> "Equation has no solution"]
            ELSE IF real_solutions = <<>> THEN
                [answer |-> "No real solution (complex only)",
                 steps |-> steps \o <<[step |-> "Complex solutions", solutions |-> solutions]>>,
                 explanation |-> "This equation only has complex/imaginary solutions.",
                 type |-> "complex_only",
                 is_impossible |-> TRUE,
                 impossible_reason |-> "Only complex solutions exist (involves U+221A-1)"]
            ELSE Linear(real_solutions, _solve_linear_steps(left, right, var))
    IN  Real(SelectSeq(solutions, LAMBDA sol : ~HasI(sol)))

\* The results _solve_equation(eq_str) can return: one for each
\* symbol list(all_symbols)[0] can be (a set has no fixed order) and each
\* order solve can list the solutions in.
_solve_equation(eq_str) ==
    LET Equation(left, right, steps, all_symbols, difference) ==
            IF all_symbols = {} THEN
                {[answer |-> IF difference = PZero THEN "True U+2713" ELSE "False U+2717",
                  steps |-> steps,
                  explanation |-> "Verified equation.",
                  type |-> "verification",
                  is_impossible |-> FALSE]}
            ELSE UNION {
                IF ~SolveModelled(difference, SymbolIndex(var)) THEN {UnmodelledResult}
                ELSE {Solved(left, right, var, solutions,
                             steps \o <<[step |-> "Solving for", var |-> var]>>) :
                        solutions \in SolveLists(difference, SymbolIndex(var))}
                : var \in all_symbols}
        Sides(left, right, steps) ==
            IF left.k = "raised" THEN {EquationError(left, steps)}
            ELSE IF left.k # "poly" THEN {UnmodelledResult}
            ELSE IF right.k = "raised" THEN {EquationError(right, steps)}
            ELSE IF right.k # "poly" THEN {UnmodelledResult}
            ELSE Equation(left.p, right.p, steps,
                          EquationSymbols(left.p, right.p), PSub(left.p, right.p))
        Stripped(left_str, right_str) ==
            Sides(parse_expr(left_str), parse_expr(right_str),
                  <<[step |-> "Equation", left |-> left_str, right |-> right_str]>>)
        Parts(parts) ==
            IF Len(parts) # 2
            THEN {EquationError(Raised("ValueError", "Invalid equation"), <<>>)}
            ELSE Stripped(Strip(parts[1]), Strip(parts[2]))
    IN  Parts(Split(eq_str, "="))

\* _evaluate_expression(expr_str)
_evaluate_expression(expr_str) ==
    LET steps == <<[step |-> "Expression", text |-> expr_str]>>
        Result(shown) ==
            [answer |-> shown,
             steps |-> steps \o <<[step |-> "Result", result |-> shown]>>,
             explanation |-> "Calculated result.",
             type |-> "arithmetic",
             is_impossible |-> FALSE]
        Number(value) ==
            IF value.d # 1 /\ Abs(value.n) * 10000 < value.d THEN UnmodelledResult
            ELSE Result(IF value.d = 1 THEN ToString(value.n) ELSE StrRounded(value))
        Simplified(expr) ==
            IF expr.k = "raised" THEN
                [answer |-> "Error: " \o expr.msg,
                 steps |-> steps,
                 explanation |-> "Check expression.",
                 type |-> "error",
                 is_impossible |-> FALSE]
            ELSE IF expr.k = "unmodelled" THEN UnmodelledResult
            ELSE IF expr.k = "undefined" THEN
                [answer |-> "Undefined",
                 steps |-> steps \o <<[step |-> "This expression is undefined"]>>,
                 explanation |-> "Expression results in undefined value (infinity or NaN)",
                 type |-> "impossible",
                 is_impossible |-> TRUE,
                 impossible_reason |-> "Expression is undefined"]
            ELSE IF FreeSymbols(expr.p) # {} THEN
                [answer |-> StrPoly(expr.p),
                 steps |-> steps \o <<[step |-> "Simplified", simplified |-> expr.p]>>,
                 explanation |-> "Simplified expression.",
                 type |-> "algebraic",
                 is_impossible |-> FALSE]
            ELSE Number(ConstOf(expr.p))
    IN  Simplified(parse_expr(expr_str))

\* _generate_explanation(eq, result, mode): mode is not read.
_generate_explanation(eq, res, mode) ==
    LET eq_type == res.type
        answer == res.answer
    IN  IF eq_type = "linear" THEN
            "To solve this linear equation, we isolate the variable by performing the same operations on both sides until we get the final answer: "
            \o answer \o "."
        ELSE IF eq_type = "quadratic" THEN
            "This is a quadratic equation. We can solve it using the quadratic formula or factoring to find the roots: "
            \o answer \o "."
        ELSE IF eq_type = "arithmetic" THEN
            "By following the order of operations (PEMDAS/BODMAS), we calculate the expression to get: "
            \o answer \o "."
        ELSE IF eq_type = "verification" THEN
            "We evaluate both sides of the equation to check if they are equal."
        ELSE res.explanation

-----------------------------------------------------------------------------
(* The equations the model hands to solve                                  *)

MaxCoef == 2        \* coefficients of the equation families: -MaxCoef..MaxCoef
MaxLiteral == 10    \* integer part of the literals of the function families
MaxOperand == 3     \* operands of the arithmetic family: 0..MaxOperand
MaxBlank == 3       \* length of the all-whitespace inputs

Coefs == (-MaxCoef)..MaxCoef

RECURSIVE NatText(_)
NatText(n) == IF n < 10 THEN <<ToString(n)>> ELSE NatText(n \div 10) \o <<ToString(n % 10)>>

IntText(n) == IF n < 0 THEN <<"-">> \o NatText(-n) ELSE NatText(n)

\* One term of a polynomial in x as a person writes it: 2x^2, x, 7.
TermText(c, e) ==
    (IF Abs(c) = 1 /\ e > 0 THEN <<>> ELSE NatText(Abs(c)))
    \o (IF e > 0 THEN <<"x">> ELSE <<>>)
    \o (IF e > 1 THEN <<"^">> \o NatText(e) ELSE <<>>)

\* The polynomial with integer coefficients coefs (highest power first).
RECURSIVE PolyTextFrom(_, _, _)
PolyTextFrom(coefs, k, first) ==
    IF k > Len(coefs) THEN (IF first THEN <<"0">> ELSE <<>>)
    ELSE IF coefs[k] = 0 THEN PolyTextFrom(coefs, k + 1, first)
    ELSE (IF first THEN (IF coefs[k] < 0 THEN <<"-">> ELSE <<>>)
          ELSE (IF coefs[k] < 0 THEN <<" ", "-", " ">> ELSE <<" ", "+", " ">>))
         \o TermText(coefs[k], Len(coefs) - k)
         \o PolyTextFrom(coefs, k + 1, FALSE)

PolyText(coefs) == PolyTextFrom(coefs, 1, TRUE)

EqualsText(l, r) == l \o <<" ", "=", " ">> \o r

\* "ax + b = cx + d" with a # c
LinearInputs ==
    {[text |-> EqualsText(PolyText(<<a, b>>), PolyText(<<c, d>>)),
      a |-> a, b |-> b, c |-> c, d |-> d] :
        <<a, b, c, d>> \in {q \in Coefs \X Coefs \X Coefs \X Coefs : q[1] # q[3]}}

\* "ax^2 + bx + c = 0" with a # 0
QuadraticInputs ==
    {[text |-> EqualsText(PolyText(<<a, b, c>>), <<"0">>), a |-> a, b |-> b, c |-> c] :
        <<a, b, c>> \in {q \in Coefs \X Coefs \X Coefs : q[1] # 0}}

\* (x - r)(x^2 + s) = 0 written out: "x^3 - rx^2 + sx - rs = 0"
CubicInputs ==
    {[text |-> EqualsText(PolyText(<<1, -r, s, -(r * s)>>), <<"0">>), r |-> r, s |-> s] :
        <<r, s>> \in Coefs \X Coefs}

\* "x + y = c" and "x + y = x + c"
TwoVariableInputs ==
    {[text |-> EqualsText(<<"x", " ", "+", " ", "y">>, PolyText(<<a, c>>)), a |-> a, c |-> c] :
        <<a, c>> \in (0..1) \X Coefs}

\* Decimal literals: an optional sign, an integer part and an optional
\* fraction, e.g. 2, -5, 1.5, 0.05
Fractions == {<<>>, <<"5">>, <<"0", "5">>}

Literals ==
    {[text |-> (IF neg THEN <<"-">> ELSE <<>>) \o NatText(n)
               \o (IF f = <<>> THEN <<>> ELSE <<".">> \o f),
      neg |-> neg, n |-> n, f |-> f] :
        <<neg, n, f>> \in BOOLEAN \X (0..MaxLiteral) \X Fractions}

\* |k| > 1 and k <= 0 for a literal k, from its parts
OutsideUnit(k) == k.n >= 2 \/ (k.n = 1 /\ k.f # <<>>)
NotPositive(k) == k.neg \/ (k.n = 0 /\ k.f = <<>>)

\* "sin(x) = k", "cos(x) = k"
TrigInputs ==
    {[text |-> EqualsText(name \o <<"(", "x", ")">>, k.text), name |-> name, k |-> k] :
        <<name, k>> \in {<<"s", "i", "n">>, <<"c", "o", "s">>} \X Literals}

\* "log(k)", "ln(k)"
LogInputs ==
    {[text |-> name \o <<"(">> \o k.text \o <<")">>, name |-> name, k |-> k] :
        <<name, k>> \in {<<"l", "o", "g">>, <<"l", "n">>} \X Literals}

\* "a+b", "a-b", "a*b", "a/b", "a^b"
ArithmeticInputs ==
    {[text |-> NatText(a) \o <<op>> \o NatText(b), a |-> a, op |-> op, b |-> b] :
        <<a, op, b>> \in (0..MaxOperand) \X {"+", "-", "*", "/", "^"} \X (0..MaxOperand)}

\* Inputs the impossible-problem patterns match after normalization
ImpossibleExamples ==
    {<<"s", "i", "n", " ", "(", "x", ")", " ", "=", " ", "2">>,
     <<"c", "o", "s", " ", "x", " ", "=", " ", "1", ".", "5">>,
     <<"s", "i", "n", " ", "x", " ", "=", " ", "3">>,
     <<"l", "o", "g", " ", "(", "-", "5", ")">>,
     <<"l", "n", " ", "(", "-", "3", ")">>,
     <<"s", "q", "r", "t", " ", "(", "-", "4", ")">>,
     <<"RADICAL", "-", "4">>,
     <<"RADICAL", " ", "-", "9">>,
     <<"RADICAL", "-", "4", " ", "+", " ", "1">>}

\* Texts that more than one rule of the specification's Domain Validator
\* applies to, or that no parser accepts, with the record of the rule of
\* the highest priority
PriorityExamples ==
    {[text |-> <<"c", "o", "s", " ", "x", " ", "=", " ", "2", ",", " ",
                 "s", "i", "n", " ", "x", " ", "=", " ", "3">>,
      impossible |-> SinImpossible],
     [text |-> <<"l", "o", "g", " ", "(", "-", "5", ")", " ", "+", " ",
                 "s", "q", "r", "t", " ", "(", "-", "4", ")">>,
      impossible |-> LogImpossible],
     [text |-> <<"RADICAL", "-", "4", " ", "+", " ", "l", "n", " ", "(", "-", "3", ")">>,
      impossible |-> LogImpossible],
     [text |-> <<"c", "o", "s", " ", "x", " ", "=", " ", "2", " ", "+", " ",
                 "l", "n", " ", "(", "-", "3", ")">>,
      impossible |-> CosImpossible],
     [text |-> <<"s", "i", "n", " ", "x", " ", "=", " ", "2", " ", "+">>,
      impossible |-> SinImpossible],
     [text |-> <<"c", "o", "s", " ", "x", " ", "=", " ", "1", ".", "5", " ", "=", " ", "(">>,
      impossible |-> CosImpossible],
     [text |-> <<"s", "q", "r", "t", " ", "(", "-", "4", ")", " ", "+">>,
      impossible |-> SqrtImpossible]}

\* Linear and quadratic equations in y and in z
OtherVariableExamples ==
    {<<"2", "y", " ", "+", " ", "3", " ", "=", " ", "7">>,
     <<"3", "z", " ", "=", " ", "1", "2">>,
     <<"y", "^", "2", " ", "-", " ", "4", " ", "=", " ", "0">>,
     <<"z", "^", "2", " ", "=", " ", "9">>,
     <<"y", "^", "2", " ", "-", " ", "2", "y", " ", "+", " ", "1", " ", "=", " ", "0">>,
     <<"z", "^", "2", " ", "-", " ", "2", " ", "=", " ", "0">>}

\* Texts in which the quantity sin(x) or cos(x) is equated with, or the
\* argument of log or sqrt, is an expression larger than a literal or holds
\* the variable
OperandExamples ==
    {<<"s", "i", "n", " ", "x", " ", "=", " ", "2", "/", "3">>,
     <<"s", "i", "n", " ", "x", " ", "=", " ", "2", "x">>,
     <<"c", "o", "s", " ", "x", " ", "=", " ", "3", " ", "-", " ", "2", ".", "5">>,
     <<"s", "i", "n", "(", "x", ")", " ", "=", " ", "x">>,
     <<"l", "o", "g", "(", "x", " ", "-", " ", "5", ")">>,
     <<"l", "o", "g", "(", "-", "5", " ", "+", " ", "1", "0", ")">>,
     <<"s", "q", "r", "t", "(", "x", " ", "-", " ", "1", "0", ")">>}

\* Expressions with a function call or a radical sign
FunctionExamples ==
    {<<"s", "q", "r", "t", "(", "1", "6", ")", " ", "+", " ", "3">>,
     <<"s", "q", "r", "t", "(", "1", "6", ")">>,
     <<"s", "q", "r", "t", "(", "-", "4", ")">>,
     <<"RADICAL", "(", "4", "+", "9", ")">>,
     <<"RADICAL", "4">>,
     <<"2", "RADICAL", "(", "x", "+", "1", ")">>,
     <<"s", "i", "n", "(", "0", ")">>,
     <<"l", "o", "g", "(", "2", "+", "3", ")">>}

\* Other arithmetic and algebraic expressions
ExpressionExamples ==
    {<<"2", " ", "+", " ", "3">>,
     <<"2", " ", "+", " ", "3", " ", "*", " ", "4">>,
     <<"(", "2", " ", "+", " ", "3", ")", " ", "*", " ", "4">>,
     <<"2", "(", "3", " ", "+", " ", "4", ")">>,
     <<"7", " ", "-", " ", "1", "0">>,
     <<"2", " ", "TIMES", " ", "3">>,
     <<"6", " ", "DIVIDE", " ", "4">>,
     <<"2", "x">>,
     <<"x", " ", "+", " ", "x">>,
     <<"x", "SUP2">>,
     <<"(", "x", "+", "1", ")", "^", "2">>,
     <<"2", "x", " ", "+", " ", "3", "y">>,
     <<"5", "/", "0", " ", "+", " ", "1">>}

\* Chains of exponents
ExponentExamples ==
    {<<"x", "^", "2", "^", "3">>,
     <<"2", "^", "3", "^", "2">>,
     <<"x", "^", "2", " ", "=", " ", "4">>,
     <<"x", "SUP2", " ", "=", " ", "9">>,
     <<"x", "^", "3", " ", "=", " ", "8">>}

\* Verifications: equations without a symbol
VerificationExamples ==
    {<<"2", " ", "+", " ", "3", " ", "=", " ", "5">>,
     <<"2", " ", "+", " ", "3", " ", "=", " ", "6">>,
     <<"x", " ", "=", " ", "x">>,
     <<"2", "x", " ", "=", " ", "2", "x", " ", "+", " ", "1">>}

\* "a + b = c": an equation without a symbol, and whether its sides are equal
VerificationInputs ==
    {[text |-> EqualsText(NatText(a) \o <<" ", "+", " ">> \o NatText(b), NatText(c)),
      equal |-> a + b = c] :
        <<a, b, c>> \in (0..MaxOperand) \X (0..MaxOperand) \X (0..(2 * MaxOperand))}

\* Equations without a symbol that hold a function call
FunctionVerifications ==
    {[text |-> <<"s", "q", "r", "t", "(", "1", "6", ")", " ", "=", " ", "4">>, equal |-> TRUE],
     [text |-> <<"4", " ", "=", " ", "s", "q", "r", "t", "(", "1", "6", ")">>, equal |-> TRUE],
     [text |-> <<"s", "i", "n", "(", "0", ")", " ", "=", " ", "1">>, equal |-> FALSE]}

\* The texts of up to n whitespace characters
RECURSIVE BlankTexts(_)
BlankTexts(n) ==
    IF n = 0 THEN {<<>>}
    ELSE BlankTexts(n - 1) \cup {Append(t, c) : t \in BlankTexts(n - 1), c \in Whitespace}

\* Empty and malformed inputs
MalformedExamples ==
    {<<>>,
     <<" ">>,
     <<" ", " ", " ">>,
     <<"=">>,
     <<"x", " ", "=">>,
     <<"=", " ", "3">>,
     <<"2", "x", " ", "+", " ", "3", " ", "=", " ", "7", " ", "=", " ", "7">>,
     <<"x", " ", "=", "=", " ", "2">>,
     <<"2", " ", "+">>,
     <<"2", " ", "+", " ", "=", " ", "3">>,
     <<"(", "2">>,
     <<"2", " ", "+", " ", "+", " ">>,
     <<"x", " ", "+", " ", ")", " ", "=", " ", "2">>,
     <<"2", "x", " ", "+", " ", "3", " ", "=", " ", "7", " ", "+">>,
     <<"3", " ", "$", " ", "4">>}

\* The examples the specification works through
LinearExample == <<"2", "x", " ", "+", " ", "3", " ", "=", " ", "7">>
RepeatedRootExample == <<"x", "^", "2", " ", "-", " ", "4", "x", " ", "+", " ", "4", " ", "=", " ", "0">>
SineExample == <<"s", "i", "n", "(", "x", ")", " ", "=", " ", "2">>
LogExample == <<"l", "o", "g", "(", "-", "5", ")">>
SqrtExample == <<"s", "q", "r", "t", "(", "1", "6", ")", " ", "+", " ", "3">>
RadicalSumExample == <<"RADICAL", "(", "4", "+", "9", ")">>
NegativeRadicalExample == <<"RADICAL", "-", "4">>
TwoVariableExample == <<"x", " ", "+", " ", "y", " ", "=", " ", "3">>
ExponentChainExample == <<"x", "^", "2", "^", "3">>

SpecExamples ==
    {LinearExample, RepeatedRootExample, SineExample, LogExample, SqrtExample,
     RadicalSumExample, NegativeRadicalExample, TwoVariableExample, ExponentChainExample}

Str(text) == [py |-> "str", s |-> text]

\* Arguments that are not strings: None, 0 and 5
NonStrings == {[py |-> "NoneType"], [py |-> "int", v |-> 0], [py |-> "int", v |-> 5]}

Inputs ==
    {Str(e.text) : e \in LinearInputs \cup QuadraticInputs \cup CubicInputs
                         \cup TwoVariableInputs \cup TrigInputs \cup LogInputs
                         \cup ArithmeticInputs \cup VerificationInputs
                         \cup FunctionVerifications \cup PriorityExamples}
    \cup {Str(t) : t \in ImpossibleExamples \cup FunctionExamples \cup ExpressionExamples
                         \cup ExponentExamples \cup VerificationExamples
                         \cup MalformedExamples \cup SpecExamples \cup OperandExamples
                         \cup OtherVariableExamples
                         \cup BlankTexts(MaxBlank)}
    \cup NonStrings

\* The modes the web layer lets through (app.py)
ALLOWED_EXPLANATION_MODES == {"grade8", "grade10", "grade12", "standard"}

\* 'standard' is the default; solve itself accepts any value
Modes == {"standard", "grade10", "expert"}

-----------------------------------------------------------------------------
(* solve(equation_str, explanation_mode), one action for each statement    *)

\* Python's truth value of a value: None, 0, '', [] and {} are false.
Truthy(v) ==
    CASE v.py = "NoneType" -> FALSE
      [] v.py = "int" -> v.v # 0
      [] v.py = "str" -> v.s # <<>>
      [] v.py = "list" -> v.items # <<>>
      [] v.py = "dict" -> DOMAIN v.d # {}

\* d[key] = value on a dict
SetItem(d, key, value) ==
    [k \in DOMAIN d \cup {key} |-> IF k = key THEN value ELSE d[k]]

\* The dict the except clause of solve returns, lines 104-111.
ErrorResult(e, eq) ==
    [answer |-> "Error: " \o e.msg,
     steps |-> <<[step |-> "Could not solve", text |-> eq]>>,
     explanation |-> "Please check the equation format.",
     type |-> "error",
     common_mistakes |-> <<>>,
     is_impossible |-> FALSE]

\* 'except Exception': every exception class the model raises derives from
\* Exception.
ExceptionClasses == {"AttributeError", "TypeError", "ValueError", "SyntaxError"}

\* 'except ValueError' in the place of 'except Exception'
CaughtValueError(e) == e.class = "ValueError"

Caught(e) == e.class \in ExceptionClasses

\* The instance after __init__, lines 57-69: the symbols, the
\* transformations and the names parse_expr resolves.
MathSolver ==
    [x |-> "x", y |-> "y", z |-> "z",
     transformations |-> <<"standard_transformations",
                           "implicit_multiplication_application", "convert_xor">>,
     local_dict |-> [x |-> "x", y |-> "y", z |-> "z", pi |-> "pi", e |-> "E",
                     sqrt |-> "sqrt", sin |-> "sin", cos |-> "cos", tan |-> "tan",
                     log |-> "log", ln |-> "ln", exp |-> "exp", i |-> "I", I |-> "I"]]

\* The module's globals after import: the COMMON_MISTAKES dict.
ModuleGlobals ==
    [COMMON_MISTAKES |-> [k \in 1..Len(MistakeIds) |->
                            [id |-> MistakeIds[k], rule |-> COMMON_MISTAKES(MistakeIds[k])]]]

Init ==
    /\ pc = "idle"
    /\ equation_arg = None
    /\ explanation_mode = None
    /\ equation_str = None
    /\ mistakes = None
    /\ result = None
    /\ exception = None
    /\ trace = <<>>
    /\ normalized = <<>>
    /\ self = MathSolver
    /\ globals = ModuleGlobals
    /\ handler = None
    /\ now = None
    /\ locals = None
    /\ passed = None
    /\ response = None

\* A caller calls solve.
Call ==
    /\ pc = "idle"
    /\ \E eq \in Inputs, mode \in Modes :
        /\ equation_arg' = eq
        /\ explanation_mode' = mode
        /\ equation_str' = eq
    /\ pc' = "preprocess"
    /\ trace' = <<"solve">>
    /\ UNCHANGED <<mistakes, result, exception, normalized, self, globals,
                   handler, now, locals, passed, response>>

\* Line 77: equation_str = self._preprocess(equation_str).  A false value
\* gives ""; another value that is not a str has no replace method.
Preprocess ==
    /\ pc = "preprocess"
    /\ trace' = Append(trace, "_preprocess")
    /\ IF ~Truthy(equation_str) THEN
            /\ equation_str' = Str(<<>>)
            /\ pc' = "check"
            /\ UNCHANGED exception
       ELSE IF equation_str.py = "str" THEN
            /\ equation_str' = Str(_preprocess(equation_str.s))
            /\ pc' = "check"
            /\ UNCHANGED exception
       ELSE
            /\ exception' = Raised("AttributeError",
                                   "'" \o equation_str.py \o "' object has no attribute 'replace'")
            /\ pc' = "except"
            /\ UNCHANGED equation_str
    /\ UNCHANGED <<equation_arg, explanation_mode, mistakes, result, normalized, self, globals,
                   handler, now, locals, passed, response>>

\* Lines 80-82: an impossible problem is returned as _check_impossible
\* built it.
CheckImpossible ==
    /\ pc = "check"
    /\ trace' = Append(trace, "_check_impossible")
    /\ LET impossible == _check_impossible(equation_str.s)
       IN  IF impossible # None
           THEN result' = impossible /\ pc' = "returned"
           ELSE result' = result /\ pc' = "detect"
    /\ UNCHANGED <<equation_arg, explanation_mode, equation_str, mistakes, exception,
                   normalized, self, globals,
                   handler, now, locals, passed, response>>

\* Line 85
DetectMistakes ==
    /\ pc = "detect"
    /\ trace' = Append(trace, "_detect_mistakes")
    /\ mistakes' = _detect_mistakes(equation_str.s)
    /\ pc' = "dispatch"
    /\ UNCHANGED <<equation_arg, explanation_mode, equation_str, result, exception,
                   normalized, self, globals,
                   handler, now, locals, passed, response>>

\* Lines 87-88
SolveEquation ==
    /\ pc = "dispatch"
    /\ Contains(equation_str.s, <<"=">>)
    /\ trace' = Append(trace, "_solve_equation")
    /\ \E r \in _solve_equation(equation_str.s) : result' = r
    /\ pc' = "explain"
    /\ UNCHANGED <<equation_arg, explanation_mode, equation_str, mistakes, exception,
                   normalized, self, globals,
                   handler, now, locals, passed, response>>

\* Lines 89-90
EvaluateExpression ==
    /\ pc = "dispatch"
    /\ ~Contains(equation_str.s, <<"=">>)
    /\ trace' = Append(trace, "_evaluate_expression")
    /\ result' = _evaluate_expression(equation_str.s)
    /\ pc' = "explain"
    /\ UNCHANGED <<equation_arg, explanation_mode, equation_str, mistakes, exception,
                   normalized, self, globals,
                   handler, now, locals, passed, response>>

\* Lines 93-101
Explain ==
    /\ pc = "explain"
    /\ trace' = Append(trace, "_generate_explanation")
    /\ LET r1 == SetItem(result, "common_mistakes", mistakes)
           r2 == SetItem(r1, "explanation",
                         _generate_explanation(equation_str.s, r1, explanation_mode))
       IN  result' = SetItem(r2, "explanation_mode", "standard")
    /\ pc' = "returned"
    /\ UNCHANGED <<equation_arg, explanation_mode, equation_str, mistakes, exception,
                   normalized, self, globals,
                   handler, now, locals, passed, response>>

\* Lines 103-111: the except clause.  An exception it does not catch
\* leaves solve.
Except ==
    /\ pc = "except"
    /\ trace' = Append(trace, "except")
    /\ IF Caught(exception)
       THEN result' = ErrorResult(exception, equation_str) /\ pc' = "returned"
       ELSE result' = result /\ pc' = "propagated"
    /\ UNCHANGED <<equation_arg, explanation_mode, equation_str, mistakes, exception,
                   normalized, self, globals,
                   handler, now, locals, passed, response>>

\* The caller takes the result; the next call starts from scratch.
Return ==
    /\ pc = "returned"
    /\ pc' = "idle"
    /\ equation_arg' = None
    /\ explanation_mode' = None
    /\ equation_str' = None
    /\ mistakes' = None
    /\ result' = None
    /\ exception' = None
    /\ trace' = <<>>
    /\ UNCHANGED <<normalized, self, globals,
                   handler, now, locals, passed, response>>

Next ==
    \/ Call
    \/ Preprocess
    \/ CheckImpossible
    \/ DetectMistakes
    \/ SolveEquation
    \/ EvaluateExpression
    \/ Explain
    \/ Except
    \/ Return

Spec == Init /\ [][Next]_vars

\* Every input the model draws stays inside the modelled fragment of sympy.
ModelCovers == result = None \/ result.type # "unmodelled"

-----------------------------------------------------------------------------
(* One call of solve as a function of its arguments.  A frame holds the    *)
(* locals of the call and the statement it is at.                          *)

\* The frame of solve(eq, mode) on entry.
Frame(eq, mode) ==
    [pc |-> "preprocess", equation_arg |-> eq, explanation_mode |-> mode,
     equation_str |-> eq, mistakes |-> None, result |-> None, exception |-> None,
     trace |-> <<"solve">>]

\* The frames the next statement of solve can lead to from frame f.
Step(f) ==
    IF f.pc = "preprocess" THEN
        \* line 77
        {IF ~Truthy(f.equation_str)
         THEN [f EXCEPT !.trace = Append(@, "_preprocess"), !.pc = "check",
                        !.equation_str = Str(<<>>)]
         ELSE IF f.equation_str.py = "str"
         THEN [f EXCEPT !.trace = Append(@, "_preprocess"), !.pc = "check",
                        !.equation_str = Str(_preprocess(f.equation_str.s))]
         ELSE [f EXCEPT !.trace = Append(@, "_preprocess"), !.pc = "except",
                        !.exception =
                            Raised("AttributeError",
                                   "'" \o f.equation_str.py
                                       \o "' object has no attribute 'replace'")]}
    ELSE IF f.pc = "check" THEN
        \* lines 80-82
        {IF _check_impossible(f.equation_str.s) # None
         THEN [f EXCEPT !.trace = Append(@, "_check_impossible"), !.pc = "returned",
                        !.result = _check_impossible(f.equation_str.s)]
         ELSE [f EXCEPT !.trace = Append(@, "_check_impossible"), !.pc = "detect"]}
    ELSE IF f.pc = "detect" THEN
        \* line 85
        {[f EXCEPT !.trace = Append(@, "_detect_mistakes"), !.pc = "dispatch",
                   !.mistakes = _detect_mistakes(f.equation_str.s)]}
    ELSE IF f.pc = "dispatch" THEN
        \* lines 87-90
        IF Contains(f.equation_str.s, <<"=">>)
        THEN {[f EXCEPT !.trace = Append(@, "_solve_equation"), !.pc = "explain",
                        !.result = r] : r \in _solve_equation(f.equation_str.s)}
        ELSE {[f EXCEPT !.trace = Append(@, "_evaluate_expression"), !.pc = "explain",
                        !.result = _evaluate_expression(f.equation_str.s)]}
    ELSE IF f.pc = "explain" THEN
        \* lines 93-101
        {[f EXCEPT !.trace = Append(@, "_generate_explanation"), !.pc = "returned",
                   !.result =
                       SetItem(SetItem(SetItem(f.result, "common_mistakes", f.mistakes),
                                       "explanation",
                                       _generate_explanation(
                                           f.equation_str.s,
                                           SetItem(f.result, "common_mistakes", f.mistakes),
                                           f.explanation_mode)),
                               "explanation_mode", "standard")]}
    ELSE IF f.pc = "except" THEN
        \* lines 103-111
        {IF Caught(f.exception)
         THEN [f EXCEPT !.trace = Append(@, "except"), !.pc = "returned",
                        !.result = ErrorResult(f.exception, f.equation_str)]
         ELSE [f EXCEPT !.trace = Append(@, "except"), !.pc = "propagated"]}
    ELSE {}

\* The frames in which a call that is at frame f can end.
RECURSIVE Run(_)
Run(f) ==
    IF f.pc \in {"returned", "propagated"} THEN {f}
    ELSE UNION {Run(g) : g \in Step(f)}

\* solve(eq, mode): the records the call can return.
solve(eq, mode) == {f.result : f \in {g \in Run(Frame(eq, mode)) : g.pc = "returned"}}

-----------------------------------------------------------------------------
(* Concurrent calls of solve on the one MathSolver that get_math_solver    *)
(* hands out.  The locals of a call live in the call's own frame: under    *)
(* SpecConcurrent each variable of a call is a function of the thread      *)
(* making it.  The statements of the calls interleave in any order.        *)

Threads == {"t1", "t2"}

ConcurrentInputs == {Str(t) : t \in SpecExamples}

\* The frame of a thread that is not inside solve.
IdleFrame ==
    [pc |-> "idle", equation_arg |-> None, explanation_mode |-> None,
     equation_str |-> None, mistakes |-> None, result |-> None, exception |-> None,
     trace |-> <<>>]

\* The frame of thread t, were equation_str an attribute of the shared
\* instance and not a local: the value some call stored there.
FrameOfShared(t) ==
    [pc |-> pc[t], equation_arg |-> equation_arg[t],
     explanation_mode |-> explanation_mode[t],
     equation_str |-> equation_str[CHOOSE u \in Threads : equation_str[u] # None],
     mistakes |-> mistakes[t], result |-> result[t], exception |-> exception[t],
     trace |-> trace[t]]

\* The frame of thread t's call.
FrameOf(t) ==
    [pc |-> pc[t], equation_arg |-> equation_arg[t],
     explanation_mode |-> explanation_mode[t], equation_str |-> equation_str[t],
     mistakes |-> mistakes[t], result |-> result[t], exception |-> exception[t],
     trace |-> trace[t]]

\* Thread t's frame becomes g; nothing else changes.
Store(t, g) ==
    /\ pc' = [pc EXCEPT ![t] = g.pc]
    /\ equation_arg' = [equation_arg EXCEPT ![t] = g.equation_arg]
    /\ explanation_mode' = [explanation_mode EXCEPT ![t] = g.explanation_mode]
    /\ equation_str' = [equation_str EXCEPT ![t] = g.equation_str]
    /\ mistakes' = [mistakes EXCEPT ![t] = g.mistakes]
    /\ result' = [result EXCEPT ![t] = g.result]
    /\ exception' = [exception EXCEPT ![t] = g.exception]
    /\ trace' = [trace EXCEPT ![t] = g.trace]
    /\ UNCHANGED <<normalized, self, globals,
                   handler, now, locals, passed, response>>

InitConcurrent ==
    /\ pc = [t \in Threads |-> IdleFrame.pc]
    /\ equation_arg = [t \in Threads |-> IdleFrame.equation_arg]
    /\ explanation_mode = [t \in Threads |-> IdleFrame.explanation_mode]
    /\ equation_str = [t \in Threads |-> IdleFrame.equation_str]
    /\ mistakes = [t \in Threads |-> IdleFrame.mistakes]
    /\ result = [t \in Threads |-> IdleFrame.result]
    /\ exception = [t \in Threads |-> IdleFrame.exception]
    /\ trace = [t \in Threads |-> IdleFrame.trace]
    /\ normalized = <<>>
    /\ self = MathSolver
    /\ globals = ModuleGlobals
    /\ handler = None
    /\ now = None
    /\ locals = None
    /\ passed = None
    /\ response = None

\* Thread t calls solve on the shared instance.
ThreadCall(t) ==
    /\ pc[t] = "idle"
    /\ \E eq \in ConcurrentInputs, mode \in Modes : Store(t, Frame(eq, mode))

\* Thread t runs the next statement of its call.
ThreadStep(t) ==
    /\ pc[t] \notin {"idle", "returned", "propagated"}
    /\ \E g \in Step(FrameOf(t)) : Store(t, g)

\* Thread t's caller takes the result.
ThreadReturn(t) ==
    /\ pc[t] = "returned"
    /\ Store(t, IdleFrame)

NextConcurrent ==
    \E t \in Threads :
        \/ ThreadCall(t)
        \/ ThreadStep(t)
        \/ ThreadReturn(t)

SpecConcurrent == InitConcurrent /\ [][NextConcurrent]_vars

-----------------------------------------------------------------------------
(* _detect_mistakes on a text and on the text with more text added         *)

MaxPieces == 2    \* pieces the original text is made of
MaxAdded == 1     \* pieces the added text is made of

\* Pieces of text the rules of COMMON_MISTAKES match
Pieces ==
    {<<"RADICAL", "(", "1", "+", "2", ")">>,
     <<"L", "O", "G", "(", "1", "+", "2", ")">>,
     <<"INTEGRAL">>,
     <<"s", "i", "n">>,
     <<"c", "o", "s">>,
     <<"RADICAL", "-">>,
     <<"/", "0">>}

\* The texts of up to n pieces
RECURSIVE PieceTexts(_)
PieceTexts(n) ==
    IF n = 0 THEN {<<>>}
    ELSE PieceTexts(n - 1) \cup {t \o c : t \in PieceTexts(n - 1), c \in Pieces}

\* A text, the text added to it (before or after it) and the result
InitDetect ==
    /\ pc = "detect"
    /\ equation_arg \in {[original |-> o, added |-> a] :
                            o \in PieceTexts(MaxPieces), a \in PieceTexts(MaxAdded) \ {<<>>}}
    /\ equation_str \in {Str(equation_arg.original \o equation_arg.added),
                         Str(equation_arg.added \o equation_arg.original)}
    /\ explanation_mode = None
    /\ mistakes = None
    /\ result = None
    /\ exception = None
    /\ trace = <<>>
    /\ normalized = <<>>
    /\ self = MathSolver
    /\ globals = ModuleGlobals
    /\ handler = None
    /\ now = None
    /\ locals = None
    /\ passed = None
    /\ response = None

\* mistakes = self._detect_mistakes(...) on the original and on the
\* extended text
Detect ==
    /\ pc = "detect"
    /\ mistakes' = [original |-> _detect_mistakes(equation_arg.original),
                    extended |-> _detect_mistakes(equation_str.s)]
    /\ pc' = "detected"
    /\ UNCHANGED <<equation_arg, explanation_mode, equation_str, result, exception, trace,
                   normalized, self, globals,
                   handler, now, locals, passed, response>>

NextDetect == Detect

SpecDetect == InitDetect /\ [][NextDetect]_vars

-----------------------------------------------------------------------------
(* _preprocess applied again to its own output                             *)

MaxLen == 5       \* length of the texts normalized
MaxPasses == 2    \* passes of _preprocess over one text

NormalizeAlphabet == {"x", "2", "3", "^", "SUP2", "("}

RECURSIVE Texts(_)
Texts(n) ==
    IF n = 0 THEN {<<>>}
    ELSE LET shorter == Texts(n - 1)
         IN  shorter \cup {Append(t, c) : t \in shorter, c \in NormalizeAlphabet}

InitNormalize ==
    /\ pc = "normalize"
    /\ equation_arg \in {Str(t) : t \in Texts(MaxLen)}
    /\ explanation_mode = None
    /\ equation_str = equation_arg
    /\ mistakes = None
    /\ result = None
    /\ exception = None
    /\ trace = <<>>
    /\ normalized = <<>>
    /\ self = MathSolver
    /\ globals = ModuleGlobals
    /\ handler = None
    /\ now = None
    /\ locals = None
    /\ passed = None
    /\ response = None

\* equation_str = self._preprocess(equation_str), once more
Normalize ==
    /\ pc = "normalize"
    /\ Len(normalized) < MaxPasses
    /\ equation_str' = Str(_preprocess(equation_str.s))
    /\ normalized' = Append(normalized, equation_str'.s)
    /\ UNCHANGED <<pc, equation_arg, explanation_mode, mistakes, result, exception, trace,
                   self, globals,
                   handler, now, locals, passed, response>>

NextNormalize == Normalize

SpecNormalize == InitNormalize /\ [][NextNormalize]_vars

-----------------------------------------------------------------------------
(* backend/gemini_handler.py: AIHandler.extract_equation, called by the    *)
(* request threads on the one handler get_gemini_handler hands out.  Under *)
(* these specifications pc, equation_arg, result, trace and locals are     *)
(* functions of the thread; handler and the clock now are shared.  The     *)
(* statements of the calls interleave in any order, and a thread inside    *)
(* time.sleep goes on once the clock has reached its wake-up time.         *)

MaxStart == 4     \* the latest time at which a call of extract_equation starts

\* time.time() when the first request arrives: the handler was built with
\* last_request_time = 0, and the clock is far past min_request_interval
StartTime == 3

\* The list of extract_equation, lines 164-168, in the opposite order
ReversedModels ==
    <<"google/gemma-3-4b-it:free", "google/gemma-3-12b-it:free",
      "qwen/qwen2.5-vl-7b-instruct:free">>

free_vision_models ==
    <<"qwen/qwen2.5-vl-7b-instruct:free", "google/gemma-3-12b-it:free",
      "google/gemma-3-4b-it:free">>

\* The handlers __init__ builds: with and without OPENROUTER_API_KEY, with
\* and without a Gemini model
AIHandlers ==
    {[openrouter_key |-> k, gemini_model |-> g, last_request_time |-> 0,
      min_request_interval |-> 3] :
        k \in {"", "sk-or-v1"}, g \in {None, [model_name |-> "gemini-1.5-flash"]}}

\* The image_bytes of a request: an image PIL can open, or not
Images == {[image |-> "jpeg"], [image |-> "garbage"]}

\* The texts a provider answers with
Contents ==
    {<<"2", "x", " ", "+", " ", "3", " ", "=", " ", "7">>,
     <<"BACKTICK", "BACKTICK", "BACKTICK", "m", "a", "t", "h", "\n", "x", " ", "=", " ", "1", "\n", "BACKTICK", "BACKTICK", "BACKTICK">>,
     <<" ">>}

\* What requests.post gives: an exception (timeout, connection error), a
\* status other than 200, a body without choices, a body with one choice
OpenRouterResponses ==
    {[raised |-> "Timeout"], [status_code |-> 429],
     [status_code |-> 200, choices |-> <<>>]}
    \cup {[status_code |-> 200, choices |-> <<[content |-> c]>>] : c \in Contents}

\* What generate_content gives: an exception, or a response with a text
GeminiResponses ==
    {[raised |-> "ResourceExhausted"]} \cup {[text |-> c] : c \in Contents \cup {<<>>}}

\* s.replace(old, empty string)
RECURSIVE Removed(_, _)
Removed(s, old) ==
    IF s = <<>> THEN <<>>
    ELSE IF StartsAt(s, 1, old) THEN Removed(SubSeq(s, Len(old) + 1, Len(s)), old)
    ELSE <<Head(s)>> \o Removed(Tail(s), old)

\* _try_openrouter(image_bytes, model_name), where http is what requests.post
\* gives.  _compress_image raises on bytes that are no image.
_try_openrouter(h, image_bytes, model_name, http) ==
    IF h.openrouter_key = "" THEN None
    ELSE IF image_bytes.image # "jpeg" THEN None
    ELSE IF "raised" \in DOMAIN http THEN None
    ELSE IF http.status_code = 200 /\ Len(http.choices) > 0
         THEN [success |-> TRUE,
               equation |-> Strip(Removed(Removed(Strip(http.choices[1].content),
                                                  <<"BACKTICK", "BACKTICK", "BACKTICK">>),
                                          <<"m", "a", "t", "h">>)),
               provider |-> model_name]
    ELSE None

\* _try_gemini(image_bytes), where answer is what generate_content gives.
_try_gemini(h, image_bytes, answer) ==
    IF h.gemini_model = None THEN None
    ELSE IF image_bytes.image # "jpeg" THEN None
    ELSE IF "raised" \in DOMAIN answer THEN None
    ELSE IF answer.text # <<>>
         THEN [success |-> TRUE,
               equation |-> Strip(Removed(Strip(answer.text), <<"BACKTICK", "BACKTICK", "BACKTICK">>)),
               provider |-> "gemini"]
    ELSE None

\* The dictionary of lines 184-188.
AllProvidersFailed ==
    [success |-> FALSE,
     error |-> "All AI providers failed. Please check OPENROUTER_API_KEY is set correctly in Render.",
     equation |-> <<>>]

NoLocals == [model |-> 0, wake |-> 0]

InitExtract ==
    /\ handler \in AIHandlers
    /\ now = StartTime
    /\ pc = [t \in Threads |-> "idle"]
    /\ equation_arg = [t \in Threads |-> None]
    /\ result = [t \in Threads |-> None]
    /\ trace = [t \in Threads |-> <<>>]
    /\ locals = [t \in Threads |-> NoLocals]
    /\ passed = <<>>
    /\ explanation_mode = None
    /\ equation_str = None
    /\ mistakes = None
    /\ exception = None
    /\ normalized = <<>>
    /\ self = None
    /\ globals = None
    /\ response = None

\* Thread t calls extract_equation(image_bytes).
ExtractCall(t) ==
    /\ pc[t] = "idle"
    /\ now <= MaxStart
    /\ \E image_bytes \in Images : equation_arg' = [equation_arg EXCEPT ![t] = image_bytes]
    /\ pc' = [pc EXCEPT ![t] = "_rate_limit"]
    /\ result' = [result EXCEPT ![t] = None]
    /\ trace' = [trace EXCEPT ![t] = <<>>]
    /\ locals' = [locals EXCEPT ![t] = NoLocals]
    /\ UNCHANGED <<handler, now, passed, explanation_mode, equation_str, mistakes,
                   exception, normalized, self, globals, response>>

\* _rate_limit, lines 33-35: elapsed is measured and, when it is less than
\* min_request_interval, the thread sleeps for the rest of the interval.
Measure(t) ==
    /\ pc[t] = "_rate_limit"
    /\ IF now - handler.last_request_time < handler.min_request_interval
       THEN /\ pc' = [pc EXCEPT ![t] = "sleep"]
            /\ locals' = [locals EXCEPT ![t].wake =
                            now + (handler.min_request_interval
                                   - (now - handler.last_request_time))]
       ELSE /\ pc' = [pc EXCEPT ![t] = "stamp"]
            /\ UNCHANGED locals
    /\ UNCHANGED <<handler, now, passed, equation_arg, result, trace, explanation_mode,
                   equation_str, mistakes, exception, normalized, self, globals,
                   response>>

\* time.sleep of line 35 returns.
Wake(t) ==
    /\ pc[t] = "sleep"
    /\ now >= locals[t].wake
    /\ pc' = [pc EXCEPT ![t] = "stamp"]
    /\ UNCHANGED <<handler, now, passed, locals, equation_arg, result, trace,
                   explanation_mode, equation_str, mistakes, exception, normalized,
                   self, globals, response>>

\* _rate_limit, line 36: self.last_request_time = time.time(), and the call
\* goes on to the first model of the list.
Stamp(t) ==
    /\ pc[t] = "stamp"
    /\ handler' = [handler EXCEPT !.last_request_time = now]
    /\ passed' = Append(passed, now)
    /\ locals' = [locals EXCEPT ![t].model = 1]
    /\ pc' = [pc EXCEPT ![t] = "_try_openrouter"]
    /\ UNCHANGED <<now, equation_arg, result, trace, explanation_mode, equation_str,
                   mistakes, exception, normalized, self, globals, response>>

\* The body of the for loop, lines 171-176: one model is tried; its result
\* is returned, or the thread sleeps for a second.
TryOpenRouter(t) ==
    /\ pc[t] = "_try_openrouter"
    /\ \E http \in OpenRouterResponses :
        LET model == free_vision_models[locals[t].model]
            Tried(returned) ==
                /\ trace' = [trace EXCEPT ![t] =
                                Append(@, [provider |-> model, returned |-> returned])]
                /\ IF returned # None
                   THEN /\ result' = [result EXCEPT ![t] = returned]
                        /\ pc' = [pc EXCEPT ![t] = "returned"]
                        /\ UNCHANGED locals
                   ELSE /\ locals' = [locals EXCEPT ![t].wake = now + 1]
                        /\ pc' = [pc EXCEPT ![t] = "sleep(1)"]
                        /\ UNCHANGED result
        IN  Tried(_try_openrouter(handler, equation_arg[t], model, http))
    /\ UNCHANGED <<handler, now, passed, equation_arg, explanation_mode, equation_str,
                   mistakes, exception, normalized, self, globals, response>>

\* time.sleep(1) of line 176 returns: the loop goes on to the next model,
\* or ends.
NextModel(t) ==
    /\ pc[t] = "sleep(1)"
    /\ now >= locals[t].wake
    /\ IF locals[t].model < Len(free_vision_models)
       THEN /\ locals' = [locals EXCEPT ![t].model = @ + 1]
            /\ pc' = [pc EXCEPT ![t] = "_try_openrouter"]
       ELSE /\ pc' = [pc EXCEPT ![t] = "_try_gemini"]
            /\ UNCHANGED locals
    /\ UNCHANGED <<handler, now, passed, equation_arg, result, trace, explanation_mode,
                   equation_str, mistakes, exception, normalized, self, globals,
                   response>>

\* Fallback to Gemini, lines 178-188.
TryGemini(t) ==
    /\ pc[t] = "_try_gemini"
    /\ \E answer \in GeminiResponses :
        LET Tried(returned) ==
                /\ trace' = [trace EXCEPT ![t] =
                                Append(@, [provider |-> "gemini", returned |-> returned])]
                /\ result' = [result EXCEPT ![t] =
                                IF returned # None THEN returned ELSE AllProvidersFailed]
        IN  Tried(_try_gemini(handler, equation_arg[t], answer))
    /\ pc' = [pc EXCEPT ![t] = "returned"]
    /\ UNCHANGED <<handler, now, passed, locals, equation_arg, explanation_mode,
                   equation_str, mistakes, exception, normalized, self, globals,
                   response>>

\* The caller has the result; the thread is free for the next request.
ExtractReturn(t) ==
    /\ pc[t] = "returned"
    /\ pc' = [pc EXCEPT ![t] = "idle"]
    /\ UNCHANGED <<handler, now, passed, locals, equation_arg, result, trace,
                   explanation_mode, equation_str, mistakes, exception, normalized,
                   self, globals, response>>

\* A second passes.  After MaxStart the clock goes on only while a thread
\* waits for it.
Tick ==
    /\ \/ now < MaxStart
       \/ \E t \in Threads : pc[t] \in {"sleep", "sleep(1)"} /\ locals[t].wake > now
    /\ now' = now + 1
    /\ UNCHANGED <<handler, passed, locals, pc, equation_arg, result, trace,
                   explanation_mode, equation_str, mistakes, exception, normalized,
                   self, globals, response>>

extract_equation(t) ==
    \/ ExtractCall(t)
    \/ Measure(t)
    \/ Wake(t)
    \/ Stamp(t)
    \/ TryOpenRouter(t)
    \/ NextModel(t)
    \/ TryGemini(t)
    \/ ExtractReturn(t)

\* One request thread
NextExtract == Tick \/ extract_equation("t1")

\* The thread is scheduled and the clock goes on.
SpecExtract == InitExtract /\ [][NextExtract]_vars /\ WF_vars(NextExtract)

\* The request threads of the server
NextRateLimit == Tick \/ \E t \in Threads : extract_equation(t)

SpecRateLimit == InitExtract /\ [][NextRateLimit]_vars

-----------------------------------------------------------------------------
(* backend/app.py: validate_equation, validate_request_json and the        *)
(* /solve-text handler.  A JSON value is a record naming its Python type   *)
(* (py): Str(text), [py |-> "int", v], [py |-> "NoneType"],                *)
(* [py |-> "list", items] and [py |-> "dict", d] with d a function of the  *)
(* keys.  More named characters: "PI" U+03C0, "INFINITY" U+221E,           *)
(* "DEGREE" U+00B0.                                                        *)

MAX_EQUATION_LENGTH == 500

\* The characters c with c.isalnum(): letters and digits, the superscript
\* digits and the Greek letter among them
Alnum ==
    Letters \cup Digits \cup {"PI"} \cup {superscripts[k][1] : k \in 1..Len(superscripts)}

\* \w under re.UNICODE
WordChars == Alnum \cup {"_"}

\* The characters of the class of safe_pattern, line 102
SafeChars ==
    WordChars \cup Whitespace
    \cup {"+", "-", "*", "/", "^", "=", "(", ")", ".", ",", "!", "[", "]", "{", "}",
          "|", "<", ">", "DEGREE", "RADICAL", "PI", "INFINITY"}

\* The first position >= i of s that holds no word character (greedy \w*).
RECURSIVE SkipWord(_, _)
SkipWord(s, i) ==
    IF i <= Len(s) /\ s[i] \in WordChars THEN SkipWord(s, i + 1) ELSE i

\* a \s* b (least = 0) or a \s+ b (least = 1) matches s at position i.
SpacedAt(s, i, a, least, b) ==
    /\ StartsAt(s, i, a)
    /\ SkipSpace(s, i + Len(a)) >= i + Len(a) + least
    /\ StartsAt(s, SkipSpace(s, i + Len(a)), b)

\* a \s* b \s+ c matches s at position i.
SpacedTwiceAt(s, i, a, b, c) ==
    /\ SpacedAt(s, i, a, 0, b)
    /\ SpacedAt(s, SkipSpace(s, i + Len(a)), b, 1, c)

FORBIDDEN_PATTERNS ==
    <<"<script", "javascript:", "on\\w+\\s*=", ";\\s*drop\\s+table",
      ";\\s*delete\\s+from", "union\\s+select", "\\|\\|", "&&", "\\$\\(", "BACKTICK">>

\* re.search(pattern, s, re.IGNORECASE) for a pattern of FORBIDDEN_PATTERNS
ForbiddenSearch(pattern, s) ==
    CASE pattern = "<script" -> Contains(s, <<"<", "s", "c", "r", "i", "p", "t">>)
      [] pattern = "javascript:" ->
            Contains(s, <<"j", "a", "v", "a", "s", "c", "r", "i", "p", "t", ":">>)
      [] pattern = "on\\w+\\s*=" ->
            \E i \in 1..Len(s) :
                /\ StartsAt(s, i, <<"o", "n">>)
                /\ SkipWord(s, i + 2) > i + 2
                /\ StartsAt(s, SkipSpace(s, SkipWord(s, i + 2)), <<"=">>)
      [] pattern = ";\\s*drop\\s+table" ->
            \E i \in 1..Len(s) :
                SpacedTwiceAt(s, i, <<";">>, <<"d", "r", "o", "p">>, <<"t", "a", "b", "l", "e">>)
      [] pattern = ";\\s*delete\\s+from" ->
            \E i \in 1..Len(s) :
                SpacedTwiceAt(s, i, <<";">>, <<"d", "e", "l", "e", "t", "e">>,
                              <<"f", "r", "o", "m">>)
      [] pattern = "union\\s+select" ->
            \E i \in 1..Len(s) :
                SpacedAt(s, i, <<"u", "n", "i", "o", "n">>, 1,
                         <<"s", "e", "l", "e", "c", "t">>)
      [] pattern = "\\|\\|" -> Contains(s, <<"|", "|">>)
      [] pattern = "&&" -> Contains(s, <<"&", "&">>)
      [] pattern = "\\$\\(" -> Contains(s, <<"$", "(">>)
      [] pattern = "BACKTICK" -> Contains(s, <<"BACKTICK">>)

\* Some pattern of FORBIDDEN_PATTERNS is found in the lowered text.
Forbidden(s) ==
    \E k \in 1..Len(FORBIDDEN_PATTERNS) : ForbiddenSearch(FORBIDDEN_PATTERNS[k], LowerText(s))

\* re.match(safe_pattern, s, re.UNICODE)
SafeMatch(s) == s # <<>> /\ \A k \in 1..Len(s) : s[k] \in SafeChars

\* Lines 102-106: the pattern matches, or some character is alphanumeric
SafeFormat(s) == SafeMatch(s) \/ \E k \in 1..Len(s) : s[k] \in Alnum

Valid == [valid |-> TRUE, error |-> ""]
Invalid(error) == [valid |-> FALSE, error |-> error]

\* validate_equation(equation)
validate_equation(equation) ==
    IF ~Truthy(equation) THEN Invalid("Equation is required")
    ELSE IF equation.py # "str" THEN Invalid("Equation must be a string")
    ELSE IF Len(equation.s) > MAX_EQUATION_LENGTH
         THEN Invalid("Equation too long (max 500 chars)")
    ELSE IF Forbidden(equation.s) THEN Invalid("Invalid characters in equation")
    ELSE IF ~SafeFormat(equation.s) THEN Invalid("Invalid equation format")
    ELSE Valid

\* Any set of fields is accepted in a JSON object.
AnyFields(data, allowed_fields) ==
    IF data.py # "dict" THEN Invalid("Request body must be JSON object") ELSE Valid

\* validate_request_json(data, allowed_fields).  The message names the
\* unexpected fields in the order the set gives them, which is left open.
validate_request_json(data, allowed_fields) ==
    IF data.py # "dict" THEN Invalid("Request body must be JSON object")
    ELSE IF DOMAIN data.d \ allowed_fields # {} THEN Invalid("Unexpected fields")
    ELSE Valid

-----------------------------------------------------------------------------
(* validate_equation on texts put together from short parts                *)

MaxParts == 3     \* parts of a text handed to validate_equation

Parts ==
    {<<"x">>, <<"1">>, <<" ">>, <<"+">>, <<"=">>, <<";">>, <<"@">>, <<"#">>, <<"|">>,
     <<"&">>, <<"$">>, <<"(">>, <<"BACKTICK">>, <<"PI">>, <<"TIMES">>, <<"RADICAL">>,
     <<"o", "n">>, <<"<", "S", "c", "r", "i", "p", "t">>,
     <<"d", "r", "o", "p">>, <<" ", "t", "a", "b", "l", "e">>}

RECURSIVE PartTexts(_)
PartTexts(n) ==
    IF n = 0 THEN {<<>>}
    ELSE PartTexts(n - 1) \cup {t \o c : t \in PartTexts(n - 1), c \in Parts}

\* A text of n characters
Long(n) == [k \in 1..n |-> "1"]

\* JSON values that are no strings
NonStringValues ==
    {[py |-> "NoneType"], [py |-> "int", v |-> 0], [py |-> "int", v |-> 5],
     [py |-> "list", items |-> <<>>], [py |-> "list", items |-> <<"x">>]}

ValidateInputs ==
    {Str(t) : t \in PartTexts(MaxParts)}
    \cup {Str(Long(MAX_EQUATION_LENGTH)), Str(Long(MAX_EQUATION_LENGTH + 1))}
    \cup NonStringValues

InitValidate ==
    /\ pc = "validate_equation"
    /\ equation_arg \in ValidateInputs
    /\ result = None
    /\ explanation_mode = None
    /\ equation_str = None
    /\ mistakes = None
    /\ exception = None
    /\ trace = <<>>
    /\ normalized = <<>>
    /\ self = None
    /\ globals = None
    /\ handler = None
    /\ now = None
    /\ locals = None
    /\ passed = None
    /\ response = None

Validate ==
    /\ pc = "validate_equation"
    /\ result' = validate_equation(equation_arg)
    /\ pc' = "validated"
    /\ UNCHANGED <<equation_arg, explanation_mode, equation_str, mistakes, exception,
                   trace, normalized, self, globals, handler, now, locals, passed,
                   response>>

NextValidate == Validate

SpecValidate == InitValidate /\ [][NextValidate]_vars

-----------------------------------------------------------------------------
(* backend/app.py: the /solve-text handler solve_text_equation, one action *)
(* for each statement.  equation_arg holds the value request.get_json      *)
(* gave, equation_str and explanation_mode the locals equation and         *)
(* explanation_mode, result the solution, trace the functions called and   *)
(* response the responses returned for the request.                        *)

\* Marks a key a dictionary does not hold.
Missing == [py |-> "missing"]

\* dict.get(key, default)
Get(data, key, default) == IF key \in DOMAIN data.d THEN data.d[key] ELSE default

\* The values of the key equation: equations the solver answers, texts the
\* validator refuses, and values that are no strings
EquationValues ==
    {Str(LinearExample), Str(SineExample), Str(<<"2", " ", "+">>), Str(<<>>),
     Str(<<"<", "s", "c", "r", "i", "p", "t", ">", "x">>), Str(<<"@", "#">>),
     [py |-> "int", v |-> 5], [py |-> "NoneType"]}

\* The values of the key explanation_mode: an allowed name, another name,
\* a number, and a list, which cannot be hashed
ModeValues ==
    {[py |-> "str", s |-> "grade8"], [py |-> "str", s |-> "expert"],
     [py |-> "int", v |-> 5], [py |-> "list", items |-> <<>>]}

\* The dictionary holding equation, explanation_mode and one more key, each
\* unless Missing
DictOf(equation, mode, other) ==
    [py |-> "dict",
     d |-> [k \in (IF equation # Missing THEN {"equation"} ELSE {})
                  \cup (IF mode # Missing THEN {"explanation_mode"} ELSE {})
                  \cup (IF other # Missing THEN {"admin"} ELSE {}) |->
                IF k = "equation" THEN equation
                ELSE IF k = "explanation_mode" THEN mode
                ELSE other]]

\* What request.get_json(force=True, silent=True) gives: None for a body
\* that is no JSON, else the JSON value
RequestBodies ==
    {[py |-> "NoneType"], [py |-> "int", v |-> 0], [py |-> "int", v |-> 5],
     Str(<<"x">>), [py |-> "list", items |-> <<>>], [py |-> "list", items |-> <<"x">>]}
    \cup {DictOf(equation, mode, other) :
            equation \in EquationValues \cup {Missing},
            mode \in ModeValues \cup {Missing},
            other \in {Missing, [py |-> "int", v |-> 1]}}

\* jsonify(...), status
JsonResponse(body, status) == [status |-> status, body |-> body]

BadRequest(error) == JsonResponse([success |-> FALSE, error |-> error], 400)

InitSolveText ==
    /\ pc = "idle"
    /\ equation_arg = None
    /\ equation_str = None
    /\ explanation_mode = None
    /\ result = None
    /\ exception = None
    /\ trace = <<>>
    /\ response = <<>>
    /\ mistakes = None
    /\ normalized = <<>>
    /\ self = MathSolver
    /\ globals = ModuleGlobals
    /\ handler = None
    /\ now = None
    /\ locals = None
    /\ passed = None

\* A request arrives: data = request.get_json(force=True, silent=True)
GetJson ==
    /\ pc = "idle"
    /\ equation_arg' \in RequestBodies
    /\ pc' = "data"
    /\ trace' = <<"get_json">>
    /\ response' = <<>>
    /\ equation_str' = None
    /\ explanation_mode' = None
    /\ result' = None
    /\ exception' = None
    /\ UNCHANGED <<mistakes, normalized, self, globals, handler, now, locals, passed>>

\* if not data: return 400
CheckBody ==
    /\ pc = "data"
    /\ IF ~Truthy(equation_arg)
       THEN /\ response' = Append(response, BadRequest("Invalid JSON body"))
            /\ pc' = "responded"
       ELSE /\ pc' = "validate_request_json"
            /\ UNCHANGED response
    /\ UNCHANGED <<equation_arg, equation_str, explanation_mode, result, exception, trace,
                   mistakes, normalized, self, globals, handler, now, locals, passed>>

\* Reject unexpected fields, lines 315-319
CheckFields ==
    /\ pc = "validate_request_json"
    /\ trace' = Append(trace, "validate_request_json")
    /\ LET Checked(v) ==
            IF ~v.valid
            THEN /\ response' = Append(response, BadRequest(v.error))
                 /\ pc' = "responded"
            ELSE /\ pc' = "validate_equation"
                 /\ UNCHANGED response
       IN  Checked(validate_request_json(equation_arg, {"equation", "explanation_mode"}))
    /\ UNCHANGED <<equation_arg, equation_str, explanation_mode, result, exception,
                   mistakes, normalized, self, globals, handler, now, locals, passed>>

\* Validate equation, lines 321-325
CheckEquation ==
    /\ pc = "validate_equation"
    /\ trace' = Append(trace, "validate_equation")
    /\ equation_str' = Get(equation_arg, "equation", Str(<<>>))
    /\ LET Checked(v) ==
            IF ~v.valid
            THEN /\ response' = Append(response, BadRequest(v.error))
                 /\ pc' = "responded"
            ELSE /\ pc' = "explanation_mode"
                 /\ UNCHANGED response
       IN  Checked(validate_equation(Get(equation_arg, "equation", Str(<<>>))))
    /\ UNCHANGED <<equation_arg, explanation_mode, result, exception,
                   mistakes, normalized, self, globals, handler, now, locals, passed>>

\* Validate explanation mode, lines 327-330.  The test 'not in' hashes the
\* value, and raises TypeError for a list.
CheckMode ==
    /\ pc = "explanation_mode"
    /\ LET Chosen(mode) ==
            IF mode.py = "list"
            THEN /\ exception' = Raised("TypeError", "unhashable type: 'list'")
                 /\ pc' = "except"
                 /\ UNCHANGED explanation_mode
            ELSE /\ explanation_mode' =
                        IF mode.py = "str" /\ mode.s \in ALLOWED_EXPLANATION_MODES
                        THEN mode.s ELSE "grade10"
                 /\ pc' = "solve"
                 /\ UNCHANGED exception
       IN  Chosen(Get(equation_arg, "explanation_mode", [py |-> "str", s |-> "grade10"]))
    /\ UNCHANGED <<equation_arg, equation_str, result, trace, response,
                   mistakes, normalized, self, globals, handler, now, locals, passed>>

\* What solver.solve returns for the equations the validator lets through
\* and the modes the handler passes on
Solutions ==
    [equation \in {e \in EquationValues : validate_equation(e).valid},
     mode \in ALLOWED_EXPLANATION_MODES |-> solve(equation, mode)]

\* solution = solver.solve(equation, explanation_mode), lines 332-333
Solve ==
    /\ pc = "solve"
    /\ trace' = Append(trace, "solve")
    /\ result' \in Solutions[equation_str, explanation_mode]
    /\ pc' = "jsonify"
    /\ UNCHANGED <<equation_arg, equation_str, explanation_mode, exception, response,
                   mistakes, normalized, self, globals, handler, now, locals, passed>>

\* return jsonify({...}), lines 337-350
Respond ==
    /\ pc = "jsonify"
    /\ response' =
         Append(response,
                JsonResponse(
                    [success |-> TRUE,
                     original_equation |-> equation_str.s,
                     cleaned_equation |-> equation_str.s,
                     solution |-> result.answer,
                     steps |-> result.steps,
                     explanation |-> result.explanation,
                     explanation_mode |-> IF "explanation_mode" \in DOMAIN result
                                          THEN result.explanation_mode ELSE "grade10",
                     equation_type |-> result.type,
                     is_impossible |-> IF "is_impossible" \in DOMAIN result
                                       THEN result.is_impossible ELSE FALSE,
                     impossible_reason |-> IF "impossible_reason" \in DOMAIN result
                                           THEN result.impossible_reason ELSE "",
                     suggestion |-> IF "suggestion" \in DOMAIN result
                                    THEN result.suggestion ELSE "",
                     common_mistakes |-> IF "common_mistakes" \in DOMAIN result
                                         THEN result.common_mistakes ELSE <<>>],
                    200))
    /\ pc' = "responded"
    /\ UNCHANGED <<equation_arg, equation_str, explanation_mode, result, exception, trace,
                   mistakes, normalized, self, globals, handler, now, locals, passed>>

\* except Exception, lines 352-358
InternalError ==
    /\ pc = "except"
    /\ response' =
         Append(response,
                JsonResponse([success |-> FALSE,
                              error |-> "An error occurred while processing your request"],
                             500))
    /\ pc' = "responded"
    /\ UNCHANGED <<equation_arg, equation_str, explanation_mode, result, exception, trace,
                   mistakes, normalized, self, globals, handler, now, locals, passed>>

\* The response has gone out; the next request can come.
Sent ==
    /\ pc = "responded"
    /\ pc' = "idle"
    /\ UNCHANGED <<equation_arg, equation_str, explanation_mode, result, exception, trace,
                   response, mistakes, normalized, self, globals, handler, now, locals,
                   passed>>

solve_text_equation ==
    \/ GetJson
    \/ CheckBody
    \/ CheckFields
    \/ CheckEquation
    \/ CheckMode
    \/ Solve
    \/ Respond
    \/ InternalError
    \/ Sent

NextSolveText == solve_text_equation

\* The thread serving the request is scheduled.
SpecSolveText == InitSolveText /\ [][NextSolveText]_vars /\ WF_vars(NextSolveText)

-----------------------------------------------------------------------------
(* The properties checked                                                  *)

Returned == pc = "returned"

ResultKeys == {"answer", "steps", "explanation", "type", "is_impossible", "common_mistakes"}

\* The messages of the exceptions a malformed or non-string input raises
Diagnostics ==
    {"invalid syntax", "Invalid equation", "unsupported operand type(s)",
     "'int' object has no attribute 'replace'"}

\* Inputs that make a stage of the pipeline fail
FailingInputs == NonStrings \cup {Str(t) : t \in MalformedExamples}

\* The rationals n/d with |n| and d up to twice the largest coefficient
SmallRationals ==
    {Rat(n, d) : n \in (-(2 * MaxCoef))..(2 * MaxCoef), d \in 1..(2 * MaxCoef)}

C2_LinearSolved ==
    Returned =>
        /\ \A e \in LinearInputs : equation_arg = Str(e.text) =>
              /\ result.type = "linear"
              /\ \E v \in SmallRationals :
                    /\ result.answer = "x = " \o StrRat(v)
                    /\ e.a * v.n + e.b * v.d = e.c * v.n + e.d * v.d
        /\ equation_arg = Str(LinearExample) =>
              result.type = "linear" /\ result.answer = "x = 2"

\* C2's case: "2x + 3 = 7" has been solved.
C2_Witness ==
    /\ Returned
    /\ equation_arg = Str(LinearExample)
    /\ result.answer = "x = 2"

\* C3 as the specification states it: for every equation in one variable
\* with a real solution the type follows the degree of left - right (1:
\* linear, 2: quadratic, otherwise polynomial), and "x^2 - 4x + 4 = 0" is
\* quadratic with the answer "x = 2".
C3_TypeByDegree ==
    Returned =>
        /\ \A e \in LinearInputs : equation_arg = Str(e.text) => result.type = "linear"
        /\ \A e \in QuadraticInputs :
              equation_arg = Str(e.text) /\ e.b * e.b - 4 * e.a * e.c >= 0
                  => result.type = "quadratic"
        /\ \A e \in CubicInputs : equation_arg = Str(e.text) => result.type = "polynomial"
        /\ equation_arg = Str(RepeatedRootExample) =>
              result.type = "quadratic" /\ result.answer = "x = 2"

\* C3's case: the quadratic "x^2 - 4x + 4 = 0" is returned as linear.
C3_Witness ==
    /\ Returned
    /\ equation_arg = Str(RepeatedRootExample)
    /\ result.type = "linear"
    /\ result.answer = "x = 2"

\* The texts of the real roots of the quadratic e: the rationals v with
\* a*v^2 + b*v + c = 0 and, when the roots are irrational, the two surds.
RootTexts(e) ==
    LET disc == e.b * e.b - 4 * e.a * e.c
        rad  == Rat(disc, 4 * e.a * e.a)
    IN  {StrRat(v) : v \in {w \in SmallRationals :
                              e.a * w.n * w.n + e.b * w.n * w.d + e.c * w.d * w.d = 0}}
        \cup (IF disc > 0 /\ ~RIsSquare(rad)
              THEN {StrValue(SurdSol(Rat(-e.b, 2 * e.a), sign, rad)) : sign \in {-1, 1}}
              ELSE {})

\* C4: for every quadratic ax^2 + bx + c = 0 (a # 0) with discriminant
\* D = b^2 - 4ac: if D > 0 the answer lists two distinct real solutions
\* joined by " or "; if D = 0 it lists one solution; if D < 0 the result
\* has type = complex_only and is_impossible = true.
C4_QuadraticByDiscriminant ==
    Returned =>
        \A e \in QuadraticInputs : equation_arg = Str(e.text) =>
            LET disc == e.b * e.b - 4 * e.a * e.c
            IN  /\ disc > 0 => \E u, v \in RootTexts(e) :
                                  /\ u # v
                                  /\ result.answer = "x = " \o u \o " or " \o v
                /\ disc = 0 => \E u \in RootTexts(e) : result.answer = "x = " \o u
                /\ disc < 0 => result.type = "complex_only" /\ result.is_impossible = TRUE

\* C4's case: quadratics of all three kinds exist, and one with a negative
\* discriminant has been answered.
C4_Witness ==
    /\ Returned
    /\ \E e \in QuadraticInputs :
          /\ equation_arg = Str(e.text)
          /\ e.b * e.b - 4 * e.a * e.c < 0
          /\ result.type = "complex_only"
    /\ \E e \in QuadraticInputs : e.b * e.b - 4 * e.a * e.c > 0
    /\ \E e \in QuadraticInputs : e.b * e.b - 4 * e.a * e.c = 0

\* C5 as the specification states it: every "sin(x) = k" and "cos(x) = k"
\* with a literal k outside [-1, 1] (either sign, integer or decimal, one
\* or more digits) is returned with is_impossible = true, type =
\* impossible, a reason and a suggestion; "sin(x) = 2" is.
C5_TrigOutOfRangeImpossible ==
    Returned =>
        \A e \in TrigInputs : equation_arg = Str(e.text) /\ OutsideUnit(e.k) =>
            /\ result.is_impossible = TRUE
            /\ result.type = "impossible"
            /\ "impossible_reason" \in DOMAIN result /\ result.impossible_reason # ""
            /\ "suggestion" \in DOMAIN result /\ result.suggestion # ""

\* C5's case: "sin(x) = 2" is returned as an error, not as impossible.
C5_Witness ==
    /\ Returned
    /\ equation_arg = Str(SineExample)
    /\ equation_str = Str(<<"s", "i", "n", "*", "(", "x", ")", " ", "=", " ", "2">>)
    /\ result.type = "error"
    /\ result.is_impossible = FALSE

\* C6 as the specification states it: every input holding log(k) or ln(k)
\* with a literal k <= 0 (zero, a negative integer, a negative decimal) is
\* returned with is_impossible = true and the reason about the logarithm's
\* domain; "log(-5)" is.
C6_LogNonPositiveImpossible ==
    Returned =>
        \A e \in LogInputs : equation_arg = Str(e.text) /\ NotPositive(e.k) =>
            /\ result.is_impossible = TRUE
            /\ "impossible_reason" \in DOMAIN result
            /\ result.impossible_reason = LogImpossible.impossible_reason

\* C6's case: "log(-5)" is returned as an error.
C6_Witness ==
    /\ Returned
    /\ equation_arg = Str(LogExample)
    /\ equation_str = Str(<<"l", "o", "g", "*", "(", "-", "5", ")">>)
    /\ result.type = "error"
    /\ result.is_impossible = FALSE

\* a to the power b for naturals
RECURSIVE NatPow(_, _)
NatPow(a, b) == IF b = 0 THEN 1 ELSE a * NatPow(a, b - 1)

\* C7 as the specification states it: every input without '=' and without
\* a variable that denotes a defined value, calls of a function included,
\* is returned with type = arithmetic and the value as its answer, an
\* integer when the value is integral; "sqrt(16) + 3" gives "7".
C7_ArithmeticEvaluated ==
    Returned =>
        /\ \A e \in ArithmeticInputs :
              equation_arg = Str(e.text) /\ ~(e.op = "/" /\ e.b = 0) =>
                  /\ result.type = "arithmetic"
                  /\ e.op = "+" => result.answer = ToString(e.a + e.b)
                  /\ e.op = "-" => result.answer = ToString(e.a - e.b)
                  /\ e.op = "*" => result.answer = ToString(e.a * e.b)
                  /\ e.op = "^" => result.answer = ToString(NatPow(e.a, e.b))
                  /\ e.op = "/" /\ e.a % e.b = 0 => result.answer = ToString(e.a \div e.b)
        /\ equation_arg = Str(SqrtExample) =>
              result.type = "arithmetic" /\ result.answer = "7"

\* C7's case: "sqrt(16) + 3" is returned as an error.
C7_Witness ==
    /\ Returned
    /\ equation_arg = Str(SqrtExample)
    /\ result.type = "error"
    /\ result.answer = "Error: unsupported operand type(s)"

\* C8 as the specification states it: _preprocess is idempotent, a second
\* pass over its own output changes nothing.
C8_NormalizeIdempotent ==
    Len(normalized) >= 2 => normalized[2] = normalized[1]

\* C8's case: "x^2^3" becomes "x**2**3", and that becomes "x**23".
C8_Witness ==
    /\ equation_arg = Str(ExponentChainExample)
    /\ normalized = << <<"x", "*", "*", "2", "*", "*", "3">>,
                       <<"x", "*", "*", "2", "3">> >>

\* C9 as the specification states it: whatever the outcome, the
\* common_mistakes of the result are the hits of all rules whose pattern
\* matches the canonical text, in table order.
C9_DetectorAlwaysRuns ==
    Returned /\ exception = None =>
        result.common_mistakes = _detect_mistakes(equation_str.s)

\* C9's case: the square root of a negative is returned as impossible
\* with no mistake, though the negative_sqrt rule matches its text; the
\* rules do run on a text that fails to parse.
C9_Witness ==
    /\ Returned
    /\ equation_arg = Str(NegativeRadicalExample)
    /\ result.type = "impossible"
    /\ result.common_mistakes = <<>>
    /\ _detect_mistakes(equation_str.s) = <<MistakeHit("negative_sqrt")>>

\* C10 as the specification states it: an equation with more than one
\* variable is returned as type = error, never with a solution for one of
\* its variables.
C10_MultipleVariablesRejected ==
    Returned =>
        /\ \A e \in TwoVariableInputs : equation_arg = Str(e.text) => result.type = "error"
        /\ equation_arg = Str(TwoVariableExample) => result.type = "error"

\* C10's case: "x + y = 3" is solved for one of its variables.
C10_Witness ==
    /\ Returned
    /\ equation_arg = Str(TwoVariableExample)
    /\ result.type = "linear"
    /\ result.answer \in {"x = 3 - y", "y = 3 - x"}


\* The types of a problem without a real answer
ImpossibleTypes == {"impossible", "no_solution", "complex_only"}

\* C11: in every result solve returns, for every input, impossible_reason
\* is present and not empty if and only if is_impossible is true, and
\* is_impossible is true exactly for the types impossible, no_solution and
\* complex_only.
C11_ReasonIffImpossible ==
    Returned =>
        /\ result.is_impossible \in BOOLEAN
        /\ ("impossible_reason" \in DOMAIN result /\ result.impossible_reason # "")
              <=> result.is_impossible
        /\ result.is_impossible <=> result.type \in ImpossibleTypes

\* C11's case: the logarithm of a negative literal has been returned as
\* impossible with its reason.
C11_Witness ==
    /\ Returned
    /\ equation_arg = Str(<<"l", "o", "g", " ", "(", "-", "5", ")">>)
    /\ result.type = "impossible"
    /\ result.is_impossible
    /\ result.impossible_reason = "Logarithm of negative numbers is undefined in real numbers"


\* C12: for an equation with no variable on either side solve returns
\* type = verification with is_impossible = false, and the answer states
\* True if and only if left - right simplifies to exactly zero, False
\* otherwise.
C12_VerificationByDifference ==
    Returned =>
        \A e \in VerificationInputs \cup FunctionVerifications :
            equation_arg = Str(e.text) =>
                /\ result.type = "verification"
                /\ result.is_impossible = FALSE
                /\ result.answer = IF e.equal THEN "True U+2713" ELSE "False U+2717"

\* C12's case: "sqrt(16) = 4", an equation without a symbol, has been
\* answered, and the answer is an error.
C12_Witness ==
    /\ Returned
    /\ equation_arg = Str(<<"s", "q", "r", "t", "(", "1", "6", ")", " ", "=", " ", "4">>)
    /\ equation_str = Str(<<"s", "q", "r", "t", "*", "(", "1", "6", ")", " ", "=", " ", "4">>)
    /\ result.type = "error"
    /\ result.answer = "Error: unsupported operand type(s)"


\* C13: empty input and all-whitespace input normalize to the empty string,
\* and solve on such an input returns a result of type = error with
\* is_impossible = false; it does not raise.
C13_BlankInputIsParseError ==
    equation_arg \in {Str(t) : t \in BlankTexts(MaxBlank)} =>
        /\ pc # "propagated"
        /\ pc \in {"check", "detect", "dispatch", "explain", "returned"} =>
              equation_str = Str(<<>>)
        /\ Returned =>
              /\ result.type = "error"
              /\ result.is_impossible = FALSE
              /\ trace[Len(trace) - 1] = "_evaluate_expression"

\* C13's case: a text of a blank, a tab and a newline has been normalized
\* to the empty string and answered with the parser's error.
C13_Witness ==
    /\ Returned
    /\ equation_arg = Str(<<" ", "\t", "\n">>)
    /\ equation_str = Str(<<>>)
    /\ result.type = "error"
    /\ result.answer = "Error: invalid syntax"
    /\ result.is_impossible = FALSE


\* Inputs whose results are compared with one another
ComparedInputs == {Str(t) : t \in MalformedExamples \cup SpecExamples}

\* The class, answer, mode and explanation of the results of ComparedInputs
Explanations ==
    UNION {{[type |-> r.type, answer |-> r.answer, mode |-> mode,
             explanation |-> r.explanation] : r \in solve(eq, mode)} :
            <<eq, mode>> \in ComparedInputs \X Modes}

\* C14: for every input text and every explanation mode outside the fixed
\* enum, solve does not fail and returns the result it returns for that
\* text under mode standard; and the explanation depends only on the class
\* of the equation, the answer and the mode: two results of the same type
\* and answer under the same mode carry the same explanation.
C14_ExplanationByClassAnswerTier ==
    /\ pc # "propagated"
    /\ Returned /\ explanation_mode \notin ALLOWED_EXPLANATION_MODES =>
          result \in solve(equation_arg, "standard")
    /\ Returned =>
          \A e \in Explanations :
              e.type = result.type /\ e.answer = result.answer /\ e.mode = explanation_mode
                  => e.explanation = result.explanation

\* C14's case: under a mode outside the enum, "2 +" has been answered with
\* the error and explanation of the evaluator, while the equation
\* "2 + = 3" gets the same error with another explanation.
C14_Witness ==
    /\ Returned
    /\ explanation_mode = "expert"
    /\ equation_arg = Str(<<"2", " ", "+">>)
    /\ result \in solve(equation_arg, "standard")
    /\ result.type = "error"
    /\ result.explanation = "Check expression."
    /\ \E r \in solve(Str(<<"2", " ", "+", " ", "=", " ", "3">>), "expert") :
          /\ r.type = result.type
          /\ r.answer = result.answer
          /\ r.explanation = "Check equation format."


\* C15: solve has no effect on shared state.  The fields of the MathSolver
\* instance (the symbols, transformations, local_dict) and the
\* COMMON_MISTAKES table stay as they were constructed, and under every
\* interleaving of concurrent calls on the one instance each call returns a
\* result it returns when run alone.
C15_CallsDoNotInterfere ==
    /\ self = MathSolver
    /\ globals = ModuleGlobals
    /\ \A t \in Threads :
          /\ pc[t] # "propagated"
          /\ pc[t] = "returned" =>
                result[t] \in solve(equation_arg[t], explanation_mode[t])

\* C15's case: the call on "2x + 3 = 7" has returned x = 2 while another
\* thread's call on "x^2 - 4x + 4 = 0" is between two of its statements.
C15_Witness ==
    /\ pc["t1"] = "returned"
    /\ equation_arg["t1"] = Str(LinearExample)
    /\ result["t1"].answer = "x = 2"
    /\ pc["t2"] = "dispatch"
    /\ equation_arg["t2"] = Str(RepeatedRootExample)
    /\ self = MathSolver


\* C16: the mistake detector is monotonic.  If the text added to an input
\* matches a rule that did not match the input, the extended input has
\* strictly more hits than the input, and no hit of the input is lost.
C16_DetectorMonotonic ==
    pc = "detected" =>
        ((\E k \in 1..Len(MistakeIds) :
              /\ PatternMatches(MistakeIds[k], equation_arg.added)
              /\ ~PatternMatches(MistakeIds[k], equation_arg.original))
         => /\ Len(mistakes.extended) > Len(mistakes.original)
            /\ \A i \in 1..Len(mistakes.original) :
                  \E j \in 1..Len(mistakes.extended) :
                      mistakes.extended[j] = mistakes.original[i])

\* C16's case: the radical of a negative has been put in front of a
\* division by zero, and the detector reports both.
C16_Witness ==
    /\ pc = "detected"
    /\ equation_arg = [original |-> <<"/", "0">>, added |-> <<"RADICAL", "-">>]
    /\ equation_str = Str(<<"RADICAL", "-", "/", "0">>)
    /\ Len(mistakes.original) = 1
    /\ mistakes.original[1].id = "zero_division"
    /\ Len(mistakes.extended) = 2
    /\ mistakes.extended[1].id = "negative_sqrt"
    /\ mistakes.extended[2].id = "zero_division"


\* The inputs a rule of the Domain Validator applies to, each with the
\* record of the first rule, in the order sin range, cos range, logarithm,
\* square root, that applies
ImpossibleCases ==
    {[text |-> e.text,
      impossible |-> IF e.name = <<"s", "i", "n">> THEN SinImpossible ELSE CosImpossible] :
        e \in {t \in TrigInputs : OutsideUnit(t.k)}}
    \cup {[text |-> e.text, impossible |-> LogImpossible] :
            e \in {t \in LogInputs : NotPositive(t.k)}}
    \cup PriorityExamples

\* The stages of a call that the Domain Validator ends
ValidatorTrace == <<"solve", "_preprocess", "_check_impossible">>

\* C17: the Domain Validator runs on the canonical text before any parsing
\* or solving, its rules tried in the order sin range, cos range, logarithm,
\* square root, the first match winning.  When a rule matches, solve
\* returns that rule's impossible result and neither parser nor solver is
\* invoked, also when the text is otherwise unparsable; when several rules
\* match, the result is that of the rule of the highest priority.
C17_ValidatorFirstMatchWins ==
    Returned =>
        \A c \in ImpossibleCases :
            equation_arg = Str(c.text) =>
                /\ result = c.impossible
                /\ trace = ValidatorTrace

\* C17's case: in "cos x = 2, sin x = 3" the cos rule matches first in the
\* text and the sin rule has the higher priority; the sin record has been
\* returned without a parse.
C17_Witness ==
    /\ Returned
    /\ equation_arg = Str(<<"c", "o", "s", " ", "x", " ", "=", " ", "2", ",", " ",
                            "s", "i", "n", " ", "x", " ", "=", " ", "3">>)
    /\ result = SinImpossible
    /\ trace = ValidatorTrace


\* C18: the Domain Validator fires only on literal numeric constants.  An
\* input in which the quantity sin(x) or cos(x) is equated with, or the
\* argument of log, ln or sqrt, is a larger expression or holds the free
\* variable is never reported impossible by the validator.
C18_ValidatorOnlyOnLiterals ==
    Returned /\ equation_arg \in {Str(t) : t \in OperandExamples} =>
        /\ trace # ValidatorTrace
        /\ result.type # "impossible"

\* C18's case: "sin x = 2/3", whose right side is a quotient inside the
\* range of the sine, has been answered by the validator.
C18_Witness ==
    /\ Returned
    /\ equation_arg = Str(<<"s", "i", "n", " ", "x", " ", "=", " ", "2", "/", "3">>)
    /\ trace = ValidatorTrace
    /\ result = SinImpossible


\* The positions of result.steps at which a linear step derivation shows
\* its substitution giving different values on the two sides.
UnverifiedAt(steps) ==
    {k \in 1..(Len(steps) - 1) :
        /\ steps[k].step = "Left side"
        /\ steps[k + 1].step = "Right side"
        /\ steps[k].check # steps[k + 1].check}

\* C19: a linear step derivation whose verification finds the two sides
\* unequal is treated as an internal error: solve never returns a non-error
\* result whose steps contain that unverified derivation.
C19_UnverifiedDerivationIsError ==
    Returned /\ result.type # "error" => UnverifiedAt(result.steps) = {}

\* C19's case: a call has returned the steps of a linear derivation, with
\* its substitution lines, in a result that is no error.
C19_Witness ==
    /\ Returned
    /\ result.type = "linear"
    /\ \E k \in 1..(Len(result.steps) - 1) :
            /\ result.steps[k].step = "Left side"
            /\ result.steps[k + 1].step = "Right side"
            /\ result.steps[k].check # result.steps[k + 1].check
            /\ result.steps[k + 1] = result.steps[Len(result.steps)]


\* The variables an equation text holds, and the variable a step line names.
VariablesOf(text) == {v \in {"x", "y", "z"} : \E k \in 1..Len(text) : text[k] = v}

StepVariables(line) == IF "var" \in DOMAIN line THEN {line.var} ELSE {}

\* C20: no step emitted for an equation names a variable that does not
\* occur in the original equation: for every solved equation in x, y or z,
\* quadratic equations in y or z included, every variable the steps mention
\* is a variable of the equation.
C20_StepsNameOnlyTheVariable ==
    Returned /\ result.type \in {"linear", "quadratic", "polynomial"} =>
        \A k \in 1..Len(result.steps) :
            StepVariables(result.steps[k]) \subseteq VariablesOf(equation_arg.s)

\* C20's case: the quadratic equation "y^2 - 4 = 0" has been solved for y
\* and its steps hold the lines of the quadratic formula.
C20_Witness ==
    /\ Returned
    /\ equation_arg = Str(<<"y", "^", "2", " ", "-", " ", "4", " ", "=", " ", "0">>)
    /\ result.type = "quadratic"
    /\ result.answer = "y = -2 or 2"
    /\ \E k \in 1..Len(result.steps) : result.steps[k].step = "Quadratic Formula"


\* The text "v = value" of a Final Solution line of the steps.
FinalSolutionText(line) == line.var \o " = " \o StrPoly(line.value)

\* C21: steps and answer agree: in every result of type linear, quadratic
\* or polynomial a "Final Solution: v = value" line of the steps states the
\* value of the answer field, for every equation with exactly one real
\* solution, cubic equations with a single real root included.
C21_FinalSolutionIsAnswer ==
    Returned /\ result.type \in {"linear", "quadratic", "polynomial"} =>
        \A k \in 1..Len(result.steps) :
            result.steps[k].step = "Final Solution" =>
                FinalSolutionText(result.steps[k]) = result.answer

\* C21's case: the cubic "x^3 = 8", which has the single real root 2, has
\* been returned with a Final Solution line in its steps.
C21_Witness ==
    /\ Returned
    /\ equation_arg = Str(<<"x", "^", "3", " ", "=", " ", "8">>)
    /\ result.type = "linear"
    /\ result.answer = "x = 2"
    /\ \E k \in 1..Len(result.steps) :
            /\ result.steps[k].step = "Final Solution"
            /\ FinalSolutionText(result.steps[k]) = "x = 8"


\* The order the providers are to be tried in: the three OpenRouter vision
\* models, then Gemini.
ProviderOrder ==
    <<"qwen/qwen2.5-vl-7b-instruct:free", "google/gemma-3-12b-it:free",
      "google/gemma-3-4b-it:free", "gemini">>

\* The providers thread t has tried so far are the first of ProviderOrder,
\* in order, and all but the last of them failed.
TriedInOrder(t) ==
    /\ Len(trace[t]) <= Len(ProviderOrder)
    /\ \A k \in 1..Len(trace[t]) : trace[t][k].provider = ProviderOrder[k]
    /\ \A k \in 1..(Len(trace[t]) - 1) : trace[t][k].returned = None

\* extract_equation returned what the last provider it tried returned, or,
\* every provider having failed, success = false with an empty equation.
FirstSuccessOrFailure(t) ==
    LET last == trace[t][Len(trace[t])]
    IN  /\ trace[t] # <<>>
        /\ IF last.returned # None
           THEN /\ result[t] = last.returned
                /\ result[t].success
           ELSE /\ Len(trace[t]) = Len(ProviderOrder)
                /\ result[t].success = FALSE
                /\ result[t].equation = <<>>

\* C22: extract_equation tries the providers in a fixed order (the three
\* OpenRouter vision models in list order, then Gemini), stops at the first
\* provider that succeeds and returns its result without calling any later
\* provider, returns success = false with an empty equation only when every
\* provider has failed, and always terminates with one of these two outcomes.
C22_FallbackChain ==
    /\ [](TriedInOrder("t1") /\ (pc["t1"] = "returned" => FirstSuccessOrFailure("t1")))
    /\ (pc["t1"] = "_rate_limit") ~> (pc["t1"] = "returned")

\* C22's case: the first two models failed, the third answered, and
\* extract_equation returned its answer without calling Gemini.
C22_Witness ==
    /\ pc["t1"] = "returned"
    /\ Len(trace["t1"]) = 3
    /\ trace["t1"][1].returned = None
    /\ trace["t1"][2].returned = None
    /\ result["t1"] = [success |-> TRUE, equation |-> <<"x", " ", "=", " ", "1">>,
                       provider |-> "google/gemma-3-4b-it:free"]
    /\ handler.gemini_model # None


\* C23: on one shared AIHandler any two extract_equation calls pass the
\* _rate_limit gate at least min_request_interval (3 seconds) apart, under
\* every interleaving of the request threads that share the handler.
C23_GateSpacing ==
    \A i, j \in 1..Len(passed) :
        i < j => passed[j] - passed[i] >= handler.min_request_interval

\* C23's case: the calls of two threads have both left _rate_limit and are
\* trying the first model.
C23_Witness ==
    /\ \A t \in Threads : pc[t] = "_try_openrouter" /\ locals[t].model = 1
    /\ Len(passed) = 2
    /\ passed[2] - passed[1] < handler.min_request_interval


\* C25: validate_equation accepts only equations made of safe math
\* characters: every string it accepts is non-empty, at most 500 characters
\* long, holds no forbidden pattern and consists solely of characters of
\* the safe set; a string with a character outside that set is rejected.
C25_AcceptsOnlySafeCharacters ==
    pc = "validated" /\ result.valid =>
        /\ equation_arg.py = "str"
        /\ equation_arg.s # <<>>
        /\ Len(equation_arg.s) <= MAX_EQUATION_LENGTH
        /\ ~Forbidden(equation_arg.s)
        /\ \A k \in 1..Len(equation_arg.s) : equation_arg.s[k] \in SafeChars

\* C25's case: validate_equation has answered for "x@1", which holds a
\* character outside the safe set.
C25_Witness ==
    /\ pc = "validated"
    /\ equation_arg = Str(<<"x", "@", "1">>)
    /\ result = Valid


\* What the /solve-text handler is to refuse: a missing or non-object body,
\* a field other than equation and explanation_mode, an equation that
\* validate_equation rejects.
Refused(data) ==
    \/ data.py # "dict"
    \/ DOMAIN data.d = {}
    \/ DOMAIN data.d \ {"equation", "explanation_mode"} # {}
    \/ ~validate_equation(Get(data, "equation", Str(<<>>))).valid

\* The functions the handler calls before the solver, in order
ValidationOrder == <<"get_json", "validate_request_json", "validate_equation">>

\* The solver was called only after the three validations, in order, on a
\* request none of them refuses; and a request that has been answered got
\* one response, 400 without a call of the solver if it was to be refused.
ValidatedBeforeSolved ==
    /\ Len(response) <= 1
    /\ \A k \in 1..Len(trace) :
          trace[k] = "solve" =>
              /\ SubSeq(trace, 1, k - 1) = ValidationOrder
              /\ ~Refused(equation_arg)
    /\ pc = "responded" =>
          /\ Len(response) = 1
          /\ response[1].status \in {200, 400, 500}
          /\ response[1].body.success = (response[1].status = 200)
          /\ Refused(equation_arg) =>
                /\ response[1].status = 400
                /\ \A k \in 1..Len(trace) : trace[k] # "solve"

=============================================================================
